---- MODULE Spec2Model ----
(***************************************************************************)
(* A model of the side-channel signaling core:                             *)
(*   - the SignalingServer durable object (one relay per room):            *)
(*     app/durable-objects/SignalingServer.ts, class at lines 164-380;     *)
(*   - the useWebRTC orchestrator (client side):                           *)
(*     app/routes/r.$roomId.tsx, hook at lines 1174-1697, and              *)
(*     app/hooks/useWebRTC.ts, hook at lines 282-889.                      *)
(*                                                                         *)
(* The relay is single threaded: every event listener (message, close,     *)
(* error) runs to completion, so each listener is one action.  The         *)
(* orchestrator's handlers are async functions: one action up to the first *)
(* await, and one action per continuation.                                 *)
(*                                                                         *)
(* Three specifications share the variables:                               *)
(*   Spec        the relay and its control channels;                       *)
(*   SpecRate    consumeRateLimit for one identity against the clock;      *)
(*   SpecClient  one orchestrator and the events its socket delivers.      *)
(***************************************************************************)
EXTENDS Integers, Sequences, FiniteSets, TLC

(***************************************************************************)
(* Bounds of the model.                                                    *)
(***************************************************************************)
\* control channels (WebSocket upgrades) the room has accepted
MaxChan == 3
\* events (messages, closes, errors, connection losses) the relay sees in one run
MaxSteps == 4
\* advances of the clock in a run of SpecRate
MaxTicks == 3
\* calls of consumeRateLimit past the ceiling within one window
MaxOver == 2
\* RTCPeerConnection objects the orchestrator constructs in one run
MaxPc == 2
\* invocations of handleUserJoined and handleOffer in one run
MaxTasks == 2
\* calls of switchDevice in one run
MaxSwitch == 1
\* packets a stream reports as received and as lost, in total
MaxPackets == 24
MaxLost == 2

(***************************************************************************)
(* Program constants.                                                      *)
(***************************************************************************)
RATE_LIMIT_WINDOW_MS == 10000
RATE_LIMIT_MAX == 80
CLOSE_CLIENT_ID_IN_USE == 4409
CLOSE_RATE_LIMIT == 4410

(***************************************************************************)
(* Value domains of the inputs.                                            *)
(***************************************************************************)
Ids == {"A", "B", "C"}
Chans == 1..MaxChan
Null == "null"
Payloads == {"sdp"}
SignalTypes == {"offer", "answer", "ice-candidate"}
\* the senderClientId values tried in offer / answer / ice-candidate
Senders == {"A", "B"}

\* the messages MessageSchema.safeParse accepts, as the parsed data
JoinMsgs == [type : {"join"}, clientId : Ids]
SignalMsgs == [type : SignalTypes, targetClientId : Ids, payload : Payloads,
               senderClientId : Senders]
MuteStateMsgs == [type : {"mute-state"}, muted : BOOLEAN, senderClientId : Senders]

\* the orchestrator: its own clientId, and the remote ids its events name
LocalId == "A"
Remotes == {"B", "C"}
\* the two useWebRTC hooks of the repository
Builds == {"route", "hook"}
\* the audio inputs; getUserMedia without a deviceId opens the first
Devices == {"mic1", "mic2"}
DefaultDevice == "mic1"

VARIABLES
    sessions,     \* Map<clientId, {ws, connectionId}>
    muteStates,   \* Map<clientId, boolean>
    rateLimits,   \* Map<clientId, {count, windowStart}>
    chan,         \* per control channel: the socket and handleSession's closure
    now,          \* Date.now()
    nSteps,       \* events of the run so far
    nTicks,       \* advances of the clock so far
    gStart,       \* reference limiter: start of the current window, -1: none
    gCalls,       \* reference limiter: calls made in the current window
    gWindows,     \* reference limiter: windows started so far
    admitted,     \* what the last call of consumeRateLimit returned
    build,        \* which hook the orchestrator runs
    readyState,   \* socket.readyState
    peerConnections, \* peerConnections.current: Map<clientId, RTCPeerConnection>
    rtc,          \* the RTCPeerConnection objects
    peersMap,     \* Map<clientId, PeerModel>
    tasks,        \* the invocations of the async handlers
    lastFetch,    \* the last request fetch() served and its status, <<>>: none
    localStreamRef, \* localStreamRef.current: <<>> (null) or <<the MediaStream>>
    localStream,  \* the localStream state: the same object, or <<>>
    lastBroadcastMuteState, \* lastBroadcastMuteState.current: <<>> (null) or <<muted>>
    joinedRef,    \* joinedRef.current
    selectedDeviceId, \* the selectedDeviceId state, "": none
    refresh,      \* the invocation of refreshLocalStream: where it is, what it sent
    nSwitch,      \* calls of switchDevice so far
    permissionState, \* the permissionState state of routes/r.$roomId.tsx
    pcState,      \* per RTCPeerConnection: signalingState, descriptions, sender
    heard,        \* per remote id: the muted of the last mute-state received, <<>>: none
    audioMonitors, \* the keys of audioMonitors.current of hooks/useWebRTC.ts
    statsMonitors, \* statsMonitors.current: Map<peerId, {intervalId, prevReceived, prevLost}>
    peerHealth,   \* the peerHealth state: Map<peerId, {rttMs, lossPercent, quality}>
    sampling,     \* the interval callbacks that await pc.getStats()
    intervals,    \* the ids of the setInterval timers not yet cleared
    roster,       \* per control channel: the ids its client was told joined and not yet told left
    joins,        \* per control channel: the joins the relay has accepted from it
    life          \* the orchestrator's socket: joins it sent; left: leave() returned and no capture was asked for since

relayVars == <<sessions, muteStates, rateLimits, chan, nSteps, roster, joins>>
limiterVars == <<nTicks, gStart, gCalls, gWindows, admitted>>
mediaVars == <<localStreamRef, localStream, lastBroadcastMuteState, joinedRef, life,
               selectedDeviceId, refresh, nSwitch, permissionState>>
peerVars == <<pcState, heard>>
statVars == <<audioMonitors, statsMonitors, peerHealth, sampling, intervals>>
clientVars == <<build, readyState, peerConnections, rtc, peersMap, tasks, mediaVars,
                peerVars, statVars>>
fetchVars == <<lastFetch>>
vars == <<sessions, muteStates, rateLimits, chan, now, nSteps, roster, joins,
          nTicks, gStart, gCalls, gWindows, admitted,
          build, readyState, peerConnections, rtc, peersMap, tasks,
          lastFetch, localStreamRef, localStream, lastBroadcastMuteState,
          joinedRef, life, selectedDeviceId, refresh, nSwitch, permissionState,
          pcState, heard, audioMonitors, statsMonitors, peerHealth, sampling,
          intervals>>

(***************************************************************************)
(* JavaScript Map, kept as the set of its entries [key, val].  The order   *)
(* of insertion is left out: the listeners walk a map only to send one     *)
(* message per entry, each send on its own.                                *)
(***************************************************************************)
MapHas(m, k) == \E e \in m : e.key = k

MapGet(m, k) == (CHOOSE e \in m : e.key = k).val

\* Map.prototype.set: the entry of an existing key is replaced
MapSet(m, k, v) == {e \in m : e.key # k} \cup {[key |-> k, val |-> v]}

MapDelete(m, k) == {e \in m : e.key # k}

(***************************************************************************)
(* The socket of a control channel.  ws.send throws once the socket is no  *)
(* longer open: the connection is gone, or the relay itself closed it.     *)
(***************************************************************************)
SendThrows(c) == chan[c].state # "open" \/ chan[c].closeCode # 0

\* crypto.randomUUID(): one token per accepted channel, never repeated
ConnectionId(c) == c

\* the ceiling compared with > in place of >=
consumeRateLimit_OneMore(limits, clientId, t) ==
    IF \/ clientId \notin DOMAIN limits
       \/ t - limits[clientId].windowStart > RATE_LIMIT_WINDOW_MS
    THEN [ok |-> TRUE,
          limits |-> [k \in DOMAIN limits \cup {clientId} |->
                        IF k = clientId THEN [count |-> 1, windowStart |-> t]
                        ELSE limits[k]]]
    ELSE IF limits[clientId].count > RATE_LIMIT_MAX
    THEN [ok |-> FALSE, limits |-> limits]
    ELSE [ok |-> TRUE,
          limits |-> [limits EXCEPT ![clientId].count = @ + 1]]

(***************************************************************************)
(* consumeRateLimit(clientId): [ok, limits].                               *)
(***************************************************************************)
consumeRateLimit(limits, clientId, t) ==
    IF \/ clientId \notin DOMAIN limits
       \/ t - limits[clientId].windowStart > RATE_LIMIT_WINDOW_MS
    THEN [ok |-> TRUE,
          limits |-> [k \in DOMAIN limits \cup {clientId} |->
                        IF k = clientId THEN [count |-> 1, windowStart |-> t]
                        ELSE limits[k]]]
    ELSE IF limits[clientId].count >= RATE_LIMIT_MAX
    THEN [ok |-> FALSE, limits |-> limits]
    ELSE [ok |-> TRUE,
          limits |-> [limits EXCEPT ![clientId].count = @ + 1]]

(***************************************************************************)
(* The broadcasts.  Each walks the sessions map in insertion order; a send *)
(* that throws deletes that entry and the walk goes on.  The state handed  *)
(* through holds the registry and out, the calls of ws.send the handler    *)
(* has made so far, in order.  A send is [to: the socket, sid: the key of  *)
(* the registry entry the socket was taken from (Null: the handler's own   *)
(* socket), msg, ok: FALSE when the call threw].                           *)
(***************************************************************************)
\* a send that throws without the delete of the entry
SendTo_NoEvict(st, id, c, msg) ==
    [st EXCEPT !.out = Append(@, [to |-> c, sid |-> id, msg |-> msg,
                                  ok |-> ~SendThrows(c)])]

SendTo(st, id, c, msg) ==
    IF SendThrows(c)
    THEN [st EXCEPT !.sessions = MapDelete(@, id),
                    !.out = Append(@, [to |-> c, sid |-> id, msg |-> msg,
                                       ok |-> FALSE])]
    ELSE [st EXCEPT !.out = Append(@, [to |-> c, sid |-> id, msg |-> msg,
                                       ok |-> TRUE])]

\* for (const [id, entry] of this.sessions) { if (id === skip) continue; send }
RECURSIVE Broadcast(_, _, _, _)
Broadcast(entries, skip, msg, st) ==
    IF entries = {} THEN st
    ELSE LET e == CHOOSE x \in entries : TRUE
         IN Broadcast(entries \ {e}, skip, msg,
                      IF e.key \in skip THEN st
                      ELSE SendTo(st, e.key, e.val.ws, msg))

\* a walk that also tells the newcomer who is in the room
broadcastUserJoined_BothWays(st, newClientId) ==
    LET told == Broadcast(st.sessions, {newClientId},
                          [type |-> "user-joined", clientId |-> newClientId], st)
        ws == MapGet(st.sessions, newClientId).ws
        others == {e.key : e \in st.sessions} \ {newClientId}
        order == CHOOSE f \in [1..Cardinality(others) -> others] :
                    \A i, j \in DOMAIN f : i # j => f[i] # f[j]
    IN [told EXCEPT !.out = @ \o
          [i \in 1..Cardinality(others) |->
             [to |-> ws, sid |-> Null,
              msg |-> [type |-> "user-joined", clientId |-> order[i]],
              ok |-> ~SendThrows(ws)]]]

\* the walk without the skip of the newcomer's own entry
broadcastUserJoined_NoSkip(st, newClientId) ==
    Broadcast(st.sessions, {},
              [type |-> "user-joined", clientId |-> newClientId], st)

broadcastUserJoined(st, newClientId) ==
    Broadcast(st.sessions, {newClientId},
              [type |-> "user-joined", clientId |-> newClientId], st)

broadcastUserLeft(st, clientId) ==
    Broadcast(st.sessions, {},
              [type |-> "user-left", clientId |-> clientId], st)

\* the walk without the skip of the sender's own entry
broadcastMuteState_NoSkip(st, senderClientId, muted) ==
    Broadcast(st.sessions, {},
              [type |-> "mute-state", senderClientId |-> senderClientId,
               muted |-> muted], st)

broadcastMuteState(st, senderClientId, muted) ==
    Broadcast(st.sessions, {senderClientId},
              [type |-> "mute-state", senderClientId |-> senderClientId,
               muted |-> muted], st)

\* a relay that does not look the target up and sends to every session
relayMessage_Broadcast(st, message) ==
    Broadcast(st.sessions, {}, message, st)

\* a relay whose send that throws leaves the target registered
relayMessage_NoEvict(st, message) ==
    IF MapHas(st.sessions, message.targetClientId)
    THEN SendTo_NoEvict(st, message.targetClientId,
                        MapGet(st.sessions, message.targetClientId).ws, message)
    ELSE st

relayMessage(st, message) ==
    IF MapHas(st.sessions, message.targetClientId)
    THEN SendTo(st, message.targetClientId,
                MapGet(st.sessions, message.targetClientId).ws, message)
    ELSE st

\* the join branch without the replay of the mute cache
sendExistingMuteStates_Skipped(st, cache, targetWs) == st

\* a send that throws is swallowed and leaves the registry alone
RECURSIVE sendExistingMuteStates(_, _, _)
sendExistingMuteStates(st, cache, targetWs) ==
    IF cache = {} THEN st
    ELSE LET e == CHOOSE x \in cache : TRUE
             msg == [type |-> "mute-state", senderClientId |-> e.key,
                     muted |-> e.val]
         IN sendExistingMuteStates(
                [st EXCEPT !.out = Append(@, [to |-> targetWs, sid |-> Null,
                                              msg |-> msg,
                                              ok |-> ~SendThrows(targetWs)])],
                cache \ {e}, targetWs)

(***************************************************************************)
(* What one run of a listener does: the maps and the closure afterwards,   *)
(* the close code it passed to ws.close (0: none), and its sends.          *)
(***************************************************************************)
Start(c) ==
    [sessions |-> sessions, muteStates |-> muteStates, rateLimits |-> rateLimits,
     clientId |-> chan[c].clientId, closeCode |-> 0,
     out |-> <<>>, branch |-> "none"]

\* the join branch without the lookup of an existing session
handleJoin_NoLookup(c, message) ==
    LET clientId == message.clientId
        registered == [Start(c) EXCEPT
                         !.clientId = clientId,
                         !.sessions = MapSet(@, clientId,
                             [ws |-> c, connectionId |-> ConnectionId(c)]),
                         !.branch = "accepted"]
        joined == broadcastUserJoined(registered, clientId)
    IN sendExistingMuteStates(joined, muteStates, c)

\* the join branch with the mute cache replayed to a channel it turns away
handleJoin_ReplaysToRejected(c, message) ==
    IF MapHas(sessions, message.clientId)
    THEN sendExistingMuteStates(
           [Start(c) EXCEPT
              !.clientId = message.clientId,
              !.out = <<[to |-> c, sid |-> Null,
                         msg |-> [type |-> "error", reason |-> "client-id-in-use"],
                         ok |-> TRUE]>>,
              !.closeCode = CLOSE_CLIENT_ID_IN_USE,
              !.branch = "rejected"],
           muteStates, c)
    ELSE handleJoin_NoLookup(c, message)

(***************************************************************************)
(* The message listener, join branch.                                      *)
(***************************************************************************)
handleJoin(c, message) ==
    LET clientId == message.clientId
        st0 == [Start(c) EXCEPT !.clientId = clientId]
    IN IF MapHas(sessions, clientId)
       THEN [st0 EXCEPT
               !.out = <<[to |-> c, sid |-> Null,
                          msg |-> [type |-> "error", reason |-> "client-id-in-use"],
                          ok |-> TRUE]>>,
               !.closeCode = CLOSE_CLIENT_ID_IN_USE,
               !.branch = "rejected"]
       ELSE LET registered == [st0 EXCEPT
                                 !.sessions = MapSet(@, clientId,
                                     [ws |-> c, connectionId |-> ConnectionId(c)]),
                                 !.branch = "accepted"]
                joined == broadcastUserJoined(registered, clientId)
            IN sendExistingMuteStates(joined, muteStates, c)

\* the relay branch without the call of consumeRateLimit
handleSignal_Uncounted(c, message) ==
    relayMessage([Start(c) EXCEPT !.branch = "relayed"], message)

(***************************************************************************)
(* The message listener, offer / answer / ice-candidate branch.            *)
(***************************************************************************)
handleSignal(c, message) ==
    LET clientId == chan[c].clientId
        rl == consumeRateLimit(rateLimits, clientId, now)
    IN IF clientId # Null /\ ~rl.ok
       THEN [Start(c) EXCEPT !.closeCode = CLOSE_RATE_LIMIT, !.branch = "rate-limit"]
       ELSE relayMessage(
              [Start(c) EXCEPT
                 !.rateLimits = IF clientId # Null THEN rl.limits ELSE @,
                 !.branch = "relayed"],
              message)

\* the mute-state branch with the cache written before the limiter is asked
handleMuteState_CacheFirst(c, message) ==
    LET clientId == chan[c].clientId
        rl == consumeRateLimit(rateLimits, clientId, now)
        cached == [Start(c) EXCEPT
                     !.muteStates = MapSet(@, message.senderClientId, message.muted)]
    IN IF clientId # Null /\ ~rl.ok
       THEN [cached EXCEPT !.closeCode = CLOSE_RATE_LIMIT, !.branch = "rate-limit"]
       ELSE broadcastMuteState(
              [cached EXCEPT
                 !.rateLimits = IF clientId # Null THEN rl.limits ELSE @,
                 !.branch = "broadcast"],
              message.senderClientId, message.muted)

(***************************************************************************)
(* The message listener, mute-state branch.                                *)
(***************************************************************************)
handleMuteState(c, message) ==
    LET clientId == chan[c].clientId
        rl == consumeRateLimit(rateLimits, clientId, now)
    IN IF clientId # Null /\ ~rl.ok
       THEN [Start(c) EXCEPT !.closeCode = CLOSE_RATE_LIMIT, !.branch = "rate-limit"]
       ELSE broadcastMuteState(
              [Start(c) EXCEPT
                 !.rateLimits = IF clientId # Null THEN rl.limits ELSE @,
                 !.muteStates = MapSet(@, message.senderClientId, message.muted),
                 !.branch = "broadcast"],
              message.senderClientId, message.muted)

(***************************************************************************)
(* The message listener from the event on.  event.data is binary, the      *)
(* empty string, a string that is no JSON text, or a JSON text; the value  *)
(* of a JSON text is an object, written as a record of its keys.           *)
(***************************************************************************)
Frame(value) == [data |-> "json", value |-> value]

\* objects that match no schema: a required key is absent, or the type is
\* not one a client may send
Malformed ==
    {[type |-> "join"],
     [clientId |-> "A"],
     [type |-> "offer", payload |-> "sdp", senderClientId |-> "A"],
     [type |-> "answer", targetClientId |-> "B", payload |-> "sdp"],
     [type |-> "mute-state", senderClientId |-> "A"],
     [type |-> "mute-state", muted |-> TRUE],
     [type |-> "user-left", clientId |-> "B"]}

\* a signal that carries a key the schema does not name
Padded ==
    {[type |-> "offer", targetClientId |-> t, payload |-> "sdp",
      senderClientId |-> "A", extra |-> "x"] : t \in {"A", "B"}}

InvalidFrames ==
    {[data |-> "binary"], [data |-> "empty"], [data |-> "text"]}
        \cup {Frame(v) : v \in Malformed}

\* z.object keeps the keys of the schema and strips the others
Strip(v, keys) == [f \in (DOMAIN v) \cap keys |-> v[f]]

JoinSchema(v) ==
    IF /\ "type" \in DOMAIN v
       /\ v.type = "join"
       /\ "clientId" \in DOMAIN v
    THEN [success |-> TRUE, data |-> Strip(v, {"type", "clientId"})]
    ELSE [success |-> FALSE]

\* payload is z.any(): the key may be absent
SignalSchema(v) ==
    IF /\ "type" \in DOMAIN v
       /\ v.type \in SignalTypes
       /\ "targetClientId" \in DOMAIN v
       /\ "senderClientId" \in DOMAIN v
    THEN [success |-> TRUE,
          data |-> Strip(v, {"type", "targetClientId", "payload", "senderClientId"})]
    ELSE [success |-> FALSE]

MuteStateSchema(v) ==
    IF /\ "type" \in DOMAIN v
       /\ v.type = "mute-state"
       /\ "muted" \in DOMAIN v
       /\ "senderClientId" \in DOMAIN v
    THEN [success |-> TRUE, data |-> Strip(v, {"type", "muted", "senderClientId"})]
    ELSE [success |-> FALSE]

\* z.union: the first schema that accepts the value
MessageSchema(v) ==
    IF JoinSchema(v).success THEN JoinSchema(v)
    ELSE IF SignalSchema(v).success THEN SignalSchema(v)
    ELSE MuteStateSchema(v)

\* a listener that closes the channel on data it does not accept
dropMessage_Closes(c) ==
    [Start(c) EXCEPT !.closeCode = 1008, !.branch = "dropped"]

\* the early returns of the listener, and its catch
dropMessage(c) == [Start(c) EXCEPT !.branch = "dropped"]

handleMessage(c, event) ==
    IF event.data # "json"
    THEN dropMessage(c)
    ELSE LET validation == MessageSchema(event.value)
         IN IF ~validation.success
            THEN dropMessage(c)
            ELSE LET message == validation.data
                 IN IF message.type = "join"
                    THEN handleJoin(c, message)
                    ELSE IF "targetClientId" \in DOMAIN message
                    THEN handleSignal(c, message)
                    ELSE IF message.type = "mute-state"
                    THEN handleMuteState(c, message)
                    ELSE dropMessage(c)

\* the close listener without the comparison of connection ids
handleClose_NoGeneration(c) ==
    LET clientId == chan[c].clientId
    IN IF clientId # Null /\ MapHas(sessions, clientId)
       THEN broadcastUserLeft(
              [Start(c) EXCEPT !.sessions = MapDelete(@, clientId),
                               !.muteStates = MapDelete(@, clientId),
                               !.branch = "teardown"],
              clientId)
       ELSE [Start(c) EXCEPT !.branch = "ignored"]

\* the close listener without the delete of the mute state
handleClose_KeepsMute(c) ==
    LET clientId == chan[c].clientId
    IN IF /\ clientId # Null
          /\ MapHas(sessions, clientId)
          /\ MapGet(sessions, clientId).connectionId = ConnectionId(c)
       THEN broadcastUserLeft(
              [Start(c) EXCEPT !.sessions = MapDelete(@, clientId),
                               !.branch = "teardown"],
              clientId)
       ELSE [Start(c) EXCEPT !.branch = "ignored"]

(***************************************************************************)
(* The close and error listeners share one body.                           *)
(***************************************************************************)
handleClose(c) ==
    LET clientId == chan[c].clientId
    IN IF /\ clientId # Null
          /\ MapHas(sessions, clientId)
          /\ MapGet(sessions, clientId).connectionId = ConnectionId(c)
       THEN broadcastUserLeft(
              [Start(c) EXCEPT !.sessions = MapDelete(@, clientId),
                               !.muteStates = MapDelete(@, clientId),
                               !.branch = "teardown"],
              clientId)
       ELSE [Start(c) EXCEPT !.branch = "ignored"]

(***************************************************************************)
(* Initial state: MaxChan upgrades have been accepted (handleSession ran   *)
(* for each) and no channel has joined.                                    *)
(***************************************************************************)
\* The object outlives its sessions.  Besides the object as constructed, a
\* run may start from the object an earlier session of A left behind: A had
\* muted and spent all but one message of its window, its entry was then
\* evicted by a send that threw, so its close event found no entry and
\* neither the mute cache nor the rate limits were cleared.
Constructed == [muteStates |-> {}, rateLimits |-> <<>>]

LeftBehind ==
    [muteStates |-> {[key |-> "A", val |-> TRUE]},
     rateLimits |-> [k \in {"A"} |-> [count |-> RATE_LIMIT_MAX - 1, windowStart |-> 0]]]

InitRelay(o) ==
    /\ sessions = {}
    /\ muteStates = o.muteStates
    /\ rateLimits = o.rateLimits
    /\ chan = [c \in Chans |-> [state |-> "open", clientId |-> Null, closeCode |-> 0]]
    /\ now = 0
    /\ nSteps = 0
    /\ roster = [c \in Chans |-> {}]
    /\ joins = [c \in Chans |-> 0]

\* no call of consumeRateLimit yet
InitLimiter ==
    /\ nTicks = 0
    /\ gStart = -1
    /\ gCalls = 0
    /\ gWindows = 0
    /\ admitted = TRUE

\* what a new RTCPeerConnection holds: signalingState "stable", no
\* description, no candidate, and a sender for the track handed to addTrack
\* ("": none).  answer: the connection whose offer the answer applied was
\* made for; queued: candidates behind a setRemoteDescription still pending;
\* rejected: the handlers whose call on it rejected
Constructing(track) ==
    [signalingState |-> "stable", answer |-> 0, candidates |-> {}, queued |-> {},
     rejected |-> {}, track |-> track]

\* no invocation of refreshLocalStream in flight
Idle == [pos |-> "idle", deviceId |-> "", wasMuted |-> FALSE, sent |-> <<>>,
         replaced |-> {}]

\* the first refreshLocalStream has opened the default device, unmuted, and
\* the join has been sent
InitMedia ==
    /\ localStreamRef = <<[deviceId |-> DefaultDevice, enabled |-> TRUE]>>
    /\ localStream = localStreamRef
    /\ lastBroadcastMuteState = <<FALSE>>
    /\ joinedRef = TRUE
    /\ life = [joins |-> 1, left |-> FALSE]
    /\ selectedDeviceId = DefaultDevice
    /\ refresh = Idle
    /\ nSwitch = 0
    /\ permissionState = "granted"

\* the hook as mounted: refs and state as useRef / useState create them,
\* the socket open
InitOrchestrator(b) ==
    /\ build = b
    /\ readyState = "open"
    /\ peerConnections = {}
    /\ rtc = [p \in 1..MaxPc |-> [state |-> "unused", target |-> Null, remote |-> FALSE]]
    /\ peersMap = {}
    /\ tasks = [t \in 1..MaxTasks |->
                  [h |-> "none", peer |-> Null, pc |-> 0, pos |-> "idle",
                   sent |-> <<>>, links |-> 0, open |-> FALSE]]
    /\ pcState = [p \in 1..MaxPc |-> Constructing("")]
    /\ heard = [x \in Remotes |-> <<>>]
    /\ audioMonitors = {}
    /\ statsMonitors = {}
    /\ peerHealth = {}
    /\ sampling = {}
    /\ intervals = {}
    /\ InitMedia

\* fetch() has served the upgrades; the model keeps no record of them
InitFetch == lastFetch = <<>>

Init ==
    /\ \E o \in {Constructed, LeftBehind} : InitRelay(o)
    /\ InitLimiter
    /\ InitOrchestrator("route")
    /\ InitFetch

\* a channel no listener has run on yet
Fresh(c) == chan[c] = [state |-> "open", clientId |-> Null, closeCode |-> 0]

\* connection ids are handed out in the order of accept, and channels that
\* no listener has run on are interchangeable: the lowest one goes first
InOrder(c) == \A d \in Chans : d < c => ~Fresh(d)

Step(c) ==
    /\ InOrder(c)
    /\ nSteps < MaxSteps
    /\ nSteps' = nSteps + 1

\* what the clients hold after the sends of a handler: a user-joined that
\* was delivered adds its clientId for the receiver, a user-left removes it
RECURSIVE Delivered(_, _)
Delivered(r, out) ==
    IF out = <<>> THEN r
    ELSE LET s == Head(out)
         IN Delivered(
              IF s.ok /\ s.msg.type = "user-joined"
              THEN [r EXCEPT ![s.to] = @ \cup {s.msg.clientId}]
              ELSE IF s.ok /\ s.msg.type = "user-left"
              THEN [r EXCEPT ![s.to] = @ \ {s.msg.clientId}]
              ELSE r,
              Tail(out))

\* the listener's result written back to the object and the closure
Commit(c, st) ==
    /\ roster' = Delivered(roster, st.out)
    /\ joins' = IF st.branch = "accepted" THEN [joins EXCEPT ![c] = @ + 1] ELSE joins
    /\ sessions' = st.sessions
    /\ muteStates' = st.muteStates
    /\ rateLimits' = st.rateLimits
    /\ chan' = [chan EXCEPT ![c].clientId = st.clientId,
                            ![c].closeCode = IF st.closeCode # 0 THEN st.closeCode ELSE @]

\* the connection is lost; the close event has not been dispatched yet
Break(c) ==
    /\ Step(c)
    /\ chan[c].state = "open"
    /\ chan[c].closeCode = 0
    /\ chan' = [chan EXCEPT ![c].state = "broken"]
    /\ UNCHANGED <<sessions, muteStates, rateLimits, now, roster, joins>>
    /\ UNCHANGED <<limiterVars, fetchVars, clientVars>>

\* a message event is dispatched only on a socket that is still open
CanReceive(c) == chan[c].state = "open" /\ chan[c].closeCode = 0

Join(c, message) ==
    /\ Step(c)
    /\ CanReceive(c)
    /\ Commit(c, handleJoin(c, message))
    /\ UNCHANGED <<now, limiterVars, fetchVars, clientVars>>

Signal(c, message) ==
    /\ Step(c)
    /\ CanReceive(c)
    /\ Commit(c, handleSignal(c, message))
    /\ UNCHANGED <<now, limiterVars, fetchVars, clientVars>>

MuteState(c, message) ==
    /\ Step(c)
    /\ CanReceive(c)
    /\ Commit(c, handleMuteState(c, message))
    /\ UNCHANGED <<now, limiterVars, fetchVars, clientVars>>

(***************************************************************************)
(* The message listener on data that is not a string, not JSON, or not of  *)
(* the schema: the handler returns (or throws into its own catch).         *)
(***************************************************************************)
Invalid(c) ==
    /\ Step(c)
    /\ CanReceive(c)
    /\ \E event \in InvalidFrames : Commit(c, handleMessage(c, event))
    /\ UNCHANGED <<now, limiterVars, fetchVars, clientVars>>

\* after the close event no listener of the channel runs again: its closure
\* is garbage and is reset
OnClose(c) ==
    /\ Step(c)
    /\ chan[c].state \in {"open", "broken", "errored"}
    /\ LET st == handleClose(c)
       IN /\ sessions' = st.sessions
          /\ muteStates' = st.muteStates
          /\ chan' = [chan EXCEPT ![c] = [state |-> "closed", clientId |-> Null,
                                          closeCode |-> 0]]
          /\ roster' = [Delivered(roster, st.out) EXCEPT ![c] = {}]
          /\ joins' = [joins EXCEPT ![c] = 0]
    /\ UNCHANGED <<rateLimits, now>>
    /\ UNCHANGED <<limiterVars, fetchVars, clientVars>>

\* an error event is followed by the close event
OnError(c) ==
    /\ Step(c)
    /\ chan[c].state = "broken"
    /\ LET st == handleClose(c)
       IN /\ sessions' = st.sessions
          /\ muteStates' = st.muteStates
          /\ chan' = [chan EXCEPT ![c].state = "errored"]
          /\ roster' = Delivered(roster, st.out)
          /\ joins' = joins
    /\ UNCHANGED <<rateLimits, now>>
    /\ UNCHANGED <<limiterVars, fetchVars, clientVars>>

Next ==
    \/ \E c \in Chans : Break(c)
    \/ \E c \in Chans, m \in JoinMsgs : Join(c, m)
    \/ \E c \in Chans, m \in SignalMsgs : Signal(c, m)
    \/ \E c \in Chans, m \in MuteStateMsgs : MuteState(c, m)
    \/ \E c \in Chans : Invalid(c)
    \/ \E c \in Chans : OnClose(c)
    \/ \E c \in Chans : OnError(c)

Spec == Init /\ [][Next]_vars

(***************************************************************************)
(* SpecRate: consumeRateLimit called for one identity while the clock      *)
(* advances.  Date.now() does not go back.  gStart, gCalls and gWindows    *)
(* keep the reference the limiter is compared with: the window that is     *)
(* open, and the number of the call within it.                             *)
(***************************************************************************)
TickDeltas == {1, RATE_LIMIT_WINDOW_MS}

InitRate ==
    /\ InitRelay(Constructed)
    /\ InitLimiter
    /\ InitOrchestrator("route")
    /\ InitFetch

Tick(d) ==
    /\ nTicks < MaxTicks
    /\ nTicks' = nTicks + 1
    /\ now' = now + d
    /\ UNCHANGED <<relayVars, gStart, gCalls, gWindows, admitted, fetchVars, clientVars>>

Consume(clientId) ==
    /\ gCalls < RATE_LIMIT_MAX + MaxOver
    /\ LET rl == consumeRateLimit(rateLimits, clientId, now)
       IN /\ rateLimits' = rl.limits
          /\ admitted' = rl.ok
    /\ IF gStart = -1 \/ now - gStart > RATE_LIMIT_WINDOW_MS
       THEN /\ gStart' = now
            /\ gCalls' = 1
            /\ gWindows' = gWindows + 1
       ELSE /\ gCalls' = gCalls + 1
            /\ UNCHANGED <<gStart, gWindows>>
    /\ UNCHANGED <<sessions, muteStates, chan, now, nSteps, roster, joins, nTicks, fetchVars,
                   clientVars>>

NextRate ==
    \/ \E d \in TickDeltas : Tick(d)
    \/ Consume("A")

SpecRate == InitRate /\ [][NextRate]_vars

(***************************************************************************)
(* SpecClient: one orchestrator.  Its socket delivers message events while *)
(* it is open; each handler runs up to its first await in the action of    *)
(* the event, and an invocation of handleUserJoined or handleOffer is then *)
(* a task that goes on, one awaited promise at a time, interleaved with    *)
(* later events.  An RTCPeerConnection is [state, target, remote: a remote *)
(* description has been applied].  The browser may reject any awaited      *)
(* operation; it never resolves one on a connection that has been closed.  *)
(***************************************************************************)
\* the refs and state the handlers work on; pc: the connection handed back
Orchestrator ==
    [peerConnections |-> peerConnections, rtc |-> rtc, peersMap |-> peersMap,
     pcState |-> pcState, pc |-> 0]

\* the audio track of the local capture, "": there is no capture
LocalTrack == IF localStreamRef = <<>> THEN "" ELSE localStreamRef[1].deviceId

\* new RTCPeerConnection(STUN_SERVERS): the next object not yet constructed
NewPc(o) ==
    CHOOSE p \in 1..MaxPc :
        /\ o.rtc[p].state = "unused"
        /\ \A q \in 1..MaxPc : q < p => o.rtc[q].state # "unused"

CanConstruct == \E p \in 1..MaxPc : rtc[p].state = "unused"

\* pc.close()
ClosePc(r, p) == [r EXCEPT ![p].state = "closed"]

\* createPeerConnection without peerConnections.current.set
createPeerConnection_NotKept(o, targetClientId) ==
    IF MapHas(o.peerConnections, targetClientId)
    THEN [o EXCEPT !.pc = MapGet(o.peerConnections, targetClientId)]
    ELSE LET p == NewPc(o)
         IN [o EXCEPT !.rtc[p] = [state |-> "open", target |-> targetClientId,
                                  remote |-> FALSE],
                      !.pcState[p] = Constructing(LocalTrack),
                      !.pc = p]

createPeerConnection(o, targetClientId) ==
    IF MapHas(o.peerConnections, targetClientId)
    THEN [o EXCEPT !.pc = MapGet(o.peerConnections, targetClientId)]
    ELSE LET p == NewPc(o)
         IN [o EXCEPT !.rtc[p] = [state |-> "open", target |-> targetClientId,
                                  remote |-> FALSE],
                      !.pcState[p] = Constructing(LocalTrack),
                      !.peerConnections = MapSet(@, targetClientId, p),
                      !.pc = p]

\* handleUserJoined of routes/r.$roomId.tsx, up to its first await
handleUserJoined(o, newClientId) ==
    LET cleaned ==
          IF MapHas(o.peerConnections, newClientId)
          THEN [o EXCEPT !.rtc = ClosePc(@, MapGet(o.peerConnections, newClientId)),
                         !.peerConnections = MapDelete(@, newClientId),
                         !.peersMap = MapDelete(@, newClientId)]
          ELSE o
    IN createPeerConnection(cleaned, newClientId)

\* handleUserJoined of hooks/useWebRTC.ts, up to its first await
hookHandleUserJoined(o, newClientId) == createPeerConnection(o, newClientId)

\* handleOffer, up to its first await
handleOffer(o, senderClientId) == createPeerConnection(o, senderClientId)

\* handleAnswer: setRemoteDescription on the connection of the sender, if any.
\* The browser applies an answer in "have-local-offer" and rejects it with
\* InvalidStateError in any other state; answer: the connection whose offer
\* the description answers
handleAnswer(o, senderClientId, answer) ==
    IF MapHas(o.peerConnections, senderClientId)
    THEN LET pc == MapGet(o.peerConnections, senderClientId)
         IN IF /\ o.rtc[pc].state = "open"
               /\ o.pcState[pc].signalingState = "have-local-offer"
            THEN [o EXCEPT !.rtc[pc].remote = TRUE,
                           !.pcState[pc].signalingState = "stable",
                           !.pcState[pc].answer = answer]
            ELSE [o EXCEPT !.pcState[pc].rejected = @ \cup {"answer"}]
    ELSE o

\* handleIceCandidate: addIceCandidate on the connection of the sender, if
\* any.  The browser runs it after the operations already pending on the
\* connection, and rejects it with InvalidStateError when the connection has
\* no remote description by then
handleIceCandidate(o, senderClientId, candidate) ==
    IF MapHas(o.peerConnections, senderClientId)
    THEN LET pc == MapGet(o.peerConnections, senderClientId)
             pending == \E t \in 1..MaxTasks :
                            tasks[t].pc = pc /\ tasks[t].pos = "setRemoteDescription"
         IN IF o.rtc[pc].state = "open" /\ o.rtc[pc].remote
            THEN [o EXCEPT !.pcState[pc].candidates = @ \cup {candidate}]
            ELSE IF o.rtc[pc].state = "open" /\ pending
            THEN [o EXCEPT !.pcState[pc].queued = @ \cup {candidate}]
            ELSE [o EXCEPT !.pcState[pc].rejected = @ \cup {"ice-candidate"}]
    ELSE o

\* updatePeerMuteState of routes/r.$roomId.tsx
updatePeerMuteState(o, peerId, muted) ==
    IF MapHas(o.peersMap, peerId)
    THEN [o EXCEPT !.peersMap =
             MapSet(@, peerId, [MapGet(o.peersMap, peerId) EXCEPT !.muted = muted])]
    ELSE o

\* updatePeerMuteState of hooks/useWebRTC.ts
hookUpdatePeerMuteState(o, peerId, muted) ==
    [o EXCEPT !.peersMap = MapSet(@, peerId, [muted |-> muted])]

handleUserLeft(o, leftClientId) ==
    LET closed ==
          IF MapHas(o.peerConnections, leftClientId)
          THEN [o EXCEPT !.rtc = ClosePc(@, MapGet(o.peerConnections, leftClientId)),
                         !.peerConnections = MapDelete(@, leftClientId)]
          ELSE o
    IN [closed EXCEPT !.peersMap = MapDelete(@, leftClientId)]

\* pc.ontrack of the connection made for targetClientId
ontrack(o, targetClientId) ==
    [o EXCEPT !.peersMap =
        MapSet(@, targetClientId,
               [muted |-> IF MapHas(o.peersMap, targetClientId)
                          THEN MapGet(o.peersMap, targetClientId).muted
                          ELSE FALSE])]

\* if (socket?.readyState === WebSocket.OPEN) socket.send(...)
SendIfOpen(sent, type, target) ==
    IF readyState = "open"
    THEN Append(sent, [type |-> type, targetClientId |-> target,
                       payload |-> "sdp", senderClientId |-> LocalId])
    ELSE sent

\* the PeerLinks the orchestrator holds for id: entries on an open connection
Links(o, id) ==
    Cardinality({e \in o.peerConnections : e.key = id /\ o.rtc[e.val].state = "open"})

CommitOrchestrator(o) ==
    /\ peerConnections' = o.peerConnections
    /\ rtc' = o.rtc
    /\ peersMap' = o.peersMap
    /\ pcState' = o.pcState

\* the next invocation record
FreeTask == CHOOSE t \in 1..MaxTasks :
                /\ tasks[t].pos = "idle"
                /\ \A u \in 1..MaxTasks : u < t => tasks[u].pos # "idle"

CanStart == \E t \in 1..MaxTasks : tasks[t].pos = "idle"

StartTask(h, peer, o, pos) ==
    tasks' = [tasks EXCEPT ![FreeTask] =
                [h |-> h, peer |-> peer, pc |-> o.pc, pos |-> pos,
                 sent |-> <<>>, links |-> Links(o, peer), open |-> FALSE]]

(***************************************************************************)
(* The monitors of hooks/useWebRTC.ts; the hook of the route has none.  A  *)
(* level monitor is its key in audioMonitors.  A stats monitor is a        *)
(* setInterval timer, named after the connection it was started for, and   *)
(* the entry of statsMonitors that holds its id and the totals of the last *)
(* sample.                                                                 *)
(***************************************************************************)
Monitors ==
    [audioMonitors |-> audioMonitors, statsMonitors |-> statsMonitors,
     peerHealth |-> peerHealth, intervals |-> intervals]

stopMonitoringLevel(m, peerId) == [m EXCEPT !.audioMonitors = @ \ {peerId}]

\* clearInterval of the id the entry holds, if there is an entry
stopStatsMonitor(m, peerId) ==
    LET cleared ==
          IF MapHas(m.statsMonitors, peerId)
          THEN [m EXCEPT !.intervals = @ \ {MapGet(m.statsMonitors, peerId).intervalId},
                         !.statsMonitors = MapDelete(@, peerId)]
          ELSE m
    IN [cleared EXCEPT !.peerHealth = MapDelete(@, peerId)]

\* prevReceived and prevLost of a new entry are undefined and read as 0
startStatsMonitor(m, peerId, pc) ==
    LET stopped == stopStatsMonitor(m, peerId)
    IN [stopped EXCEPT
          !.intervals = @ \cup {pc},
          !.statsMonitors = MapSet(@, peerId, [intervalId |-> pc, prevReceived |-> 0,
                                               prevLost |-> 0])]

\* createPeerConnection of the hook starts a stats monitor for a connection
\* it constructs
monitored(m, o, targetClientId) ==
    IF build = "hook" /\ ~MapHas(peerConnections, targetClientId)
    THEN startStatsMonitor(m, targetClientId, o.pc)
    ELSE m

\* stopAllMonitoring(); stopAllStats(): every key of the two maps is stopped
stopAll(m) ==
    [m EXCEPT !.audioMonitors = {},
              !.intervals = @ \ {e.val.intervalId : e \in m.statsMonitors},
              !.statsMonitors = {},
              !.peerHealth = {e \in @ : ~MapHas(m.statsMonitors, e.key)}]

CommitMonitors(m) ==
    /\ audioMonitors' = m.audioMonitors
    /\ statsMonitors' = m.statsMonitors
    /\ peerHealth' = m.peerHealth
    /\ intervals' = m.intervals

OnUserJoined(x) ==
    /\ readyState = "open"
    /\ CanStart
    /\ CanConstruct
    /\ LET o == IF build = "route" THEN handleUserJoined(Orchestrator, x)
                ELSE hookHandleUserJoined(Orchestrator, x)
       IN /\ CommitOrchestrator(o)
          /\ StartTask("user-joined", x, o, "createOffer")
          /\ CommitMonitors(monitored(Monitors, o, x))
    /\ UNCHANGED <<relayVars, now, limiterVars, fetchVars, sampling, heard, mediaVars, build, readyState>>

OnOffer(x) ==
    /\ readyState = "open"
    /\ CanStart
    /\ CanConstruct
    /\ LET o == handleOffer(Orchestrator, x)
       IN /\ CommitOrchestrator(o)
          /\ StartTask("offer", x, o, "setRemoteDescription")
          /\ CommitMonitors(monitored(Monitors, o, x))
    /\ UNCHANGED <<relayVars, now, limiterVars, fetchVars, sampling, heard, mediaVars, build, readyState>>

\* the connections made for x whose offer went out: x can have answered them
Offered(x) ==
    {p \in 1..MaxPc : \E t \in 1..MaxTasks :
        /\ tasks[t].pc = p /\ tasks[t].peer = x /\ tasks[t].h = "user-joined"
        /\ tasks[t].pos = "done" /\ tasks[t].sent # <<>>}

\* the connections made on an offer of x
Answering(x) ==
    {p \in 1..MaxPc : \E t \in 1..MaxTasks :
        tasks[t].pc = p /\ tasks[t].peer = x /\ tasks[t].h = "offer"}

\* an answer of x arrives, made for one of the offers x was sent
OnAnswer(x) ==
    /\ readyState = "open"
    /\ \E answer \in Offered(x) :
          CommitOrchestrator(handleAnswer(Orchestrator, x, answer))
    /\ UNCHANGED <<relayVars, now, limiterVars, fetchVars, statVars, heard, mediaVars, build, readyState, tasks>>

\* a candidate of x arrives, gathered for one of its negotiations
OnCandidate(x) ==
    /\ readyState = "open"
    /\ \E candidate \in Offered(x) \cup Answering(x) :
          CommitOrchestrator(handleIceCandidate(Orchestrator, x, candidate))
    /\ UNCHANGED <<relayVars, now, limiterVars, fetchVars, statVars, heard, mediaVars, build, readyState, tasks>>

\* a mute-state of x arrives
OnMuteState(x, muted) ==
    /\ readyState = "open"
    /\ CommitOrchestrator(IF build = "route"
                          THEN updatePeerMuteState(Orchestrator, x, muted)
                          ELSE hookUpdatePeerMuteState(Orchestrator, x, muted))
    /\ heard' = [heard EXCEPT ![x] = <<muted>>]
    /\ UNCHANGED <<relayVars, now, limiterVars, fetchVars, statVars, mediaVars, build, readyState, tasks>>

\* handleUserLeft of the hook also stops the monitors of the peer
OnUserLeft(x) ==
    /\ readyState = "open"
    /\ CommitOrchestrator(handleUserLeft(Orchestrator, x))
    /\ CommitMonitors(IF build = "hook"
                      THEN stopStatsMonitor(stopMonitoringLevel(Monitors, x), x)
                      ELSE Monitors)
    /\ heard' = [heard EXCEPT ![x] = <<>>]
    /\ UNCHANGED <<relayVars, now, limiterVars, fetchVars, sampling, mediaVars, build, readyState, tasks>>

\* pc.ontrack of the hook also starts the level monitor of the peer
OnTrack(p) ==
    /\ rtc[p].state = "open"
    /\ rtc[p].remote
    /\ CommitOrchestrator(ontrack(Orchestrator, rtc[p].target))
    /\ audioMonitors' = IF build = "hook" THEN audioMonitors \cup {rtc[p].target}
                        ELSE audioMonitors
    /\ UNCHANGED <<relayVars, now, limiterVars, fetchVars, statsMonitors, peerHealth, sampling, intervals, heard, mediaVars, build, readyState, tasks>>

\* the awaits of handleUserJoined and handleOffer
Awaiting == {"createOffer", "setRemoteDescription", "createAnswer", "setLocalDescription"}

\* the promise a task awaits resolves and the handler runs to its next await
\* or to its end.  The browser resolves an operation only in a signalingState
\* that allows it: an offer is made and set in "stable" or "have-local-offer",
\* an answer is made and set in "have-remote-offer"; a remote offer replaces a
\* local one (rollback)
Settle(t) ==
    /\ tasks[t].pos \in Awaiting
    /\ rtc[tasks[t].pc].state = "open"
    /\ LET k == tasks[t]
           state == pcState[k.pc].signalingState
       IN CASE k.pos = "createOffer" ->
                 /\ state \in {"stable", "have-local-offer"}
                 /\ tasks' = [tasks EXCEPT ![t].pos = "setLocalDescription"]
                 /\ UNCHANGED <<rtc, pcState>>
            [] k.pos = "setRemoteDescription" ->
                 /\ tasks' = [tasks EXCEPT ![t].pos = "createAnswer"]
                 /\ rtc' = [rtc EXCEPT ![k.pc].remote = TRUE]
                 /\ pcState' = [pcState EXCEPT
                                  ![k.pc].signalingState = "have-remote-offer",
                                  ![k.pc].candidates = @ \cup pcState[k.pc].queued,
                                  ![k.pc].queued = {}]
            [] k.pos = "createAnswer" ->
                 /\ state = "have-remote-offer"
                 /\ tasks' = [tasks EXCEPT ![t].pos = "setLocalDescription"]
                 /\ UNCHANGED <<rtc, pcState>>
            [] k.pos = "setLocalDescription" ->
                 /\ IF k.h = "user-joined"
                    THEN state \in {"stable", "have-local-offer"}
                    ELSE state = "have-remote-offer"
                 /\ tasks' = [tasks EXCEPT
                                ![t].pos = "done",
                                ![t].open = (readyState = "open"),
                                ![t].sent = SendIfOpen(@,
                                    IF k.h = "user-joined" THEN "offer" ELSE "answer",
                                    k.peer)]
                 /\ pcState' = [pcState EXCEPT ![k.pc].signalingState =
                                  IF k.h = "user-joined" THEN "have-local-offer"
                                  ELSE "stable"]
                 /\ UNCHANGED rtc
    /\ UNCHANGED <<relayVars, now, limiterVars, fetchVars, statVars, heard, mediaVars, build, readyState, peerConnections,
                   peersMap>>

\* the promise a task awaits rejects: the handler throws and sends nothing;
\* the candidates queued behind a setRemoteDescription are rejected with it
Reject(t) ==
    /\ tasks[t].pos \in Awaiting
    /\ tasks' = [tasks EXCEPT ![t].pos = "failed"]
    /\ pcState' = IF tasks[t].pos = "setRemoteDescription"
                     /\ pcState[tasks[t].pc].queued # {}
                  THEN [pcState EXCEPT ![tasks[t].pc].queued = {},
                                       ![tasks[t].pc].rejected = @ \cup {"ice-candidate"}]
                  ELSE pcState
    /\ UNCHANGED <<relayVars, now, limiterVars, fetchVars, statVars, heard, mediaVars, build, readyState, peerConnections,
                   rtc, peersMap>>

(***************************************************************************)
(* The local capture.  A MediaStream is its audio track: the device and    *)
(* track.enabled.  refreshLocalStream awaits getUserMedia and then runs on *)
(* to its end; what it sent and the connections whose sender it handed the *)
(* new track are kept in refresh.                                          *)
(***************************************************************************)
MuteStateMsg(muted) ==
    [type |-> "mute-state", senderClientId |-> LocalId, muted |-> muted]

\* sendMuteState of routes/r.$roomId.tsx: sends on an open socket only
sendMuteState(sent, muted) ==
    IF readyState = "open"
    THEN Append(sent, [msg |-> MuteStateMsg(muted), onOpen |-> FALSE])
    ELSE sent

\* sendMuteState of hooks/useWebRTC.ts: on a connecting socket the send is
\* left to an open listener
hookSendMuteState(sent, muted) ==
    IF readyState = "open"
    THEN Append(sent, [msg |-> MuteStateMsg(muted), onOpen |-> FALSE])
    ELSE IF readyState = "connecting"
    THEN Append(sent, [msg |-> MuteStateMsg(muted), onOpen |-> TRUE])
    ELSE sent

\* localStreamRef.current?.getAudioTracks()[0]?.enabled === false
WasMuted == localStreamRef # <<>> /\ ~localStreamRef[1].enabled

\* what refreshLocalStream reads and writes
Media ==
    [peerConnections |-> peerConnections, rtc |-> rtc, peersMap |-> peersMap,
     localStreamRef |-> localStreamRef, localStream |-> localStream,
     lastBroadcastMuteState |-> lastBroadcastMuteState,
     selectedDeviceId |-> selectedDeviceId, permissionState |-> permissionState,
     pcState |-> pcState, sent |-> <<>>, replaced |-> {}]

\* sender.replaceTrack(newTrack) on each of the connections given
replaceTrack(slots, pcs, newTrack) ==
    [p \in 1..MaxPc |-> IF p \in pcs THEN [slots[p] EXCEPT !.track = newTrack]
                        ELSE slots[p]]

\* the stream getUserMedia resolves with, its track enabled
UserMedia(deviceId) ==
    [deviceId |-> IF deviceId = "" THEN DefaultDevice ELSE deviceId, enabled |-> TRUE]

\* a refresh that renegotiates: every held connection is closed and made
\* anew, and an offer goes out for each
refreshLocalStream_Renegotiate(m, deviceId, wasMuted) ==
    LET stream == [UserMedia(deviceId) EXCEPT !.enabled = ~wasMuted]
        held == {e.val : e \in m.peerConnections}
    IN [m EXCEPT
          !.localStreamRef = <<stream>>,
          !.localStream = <<stream>>,
          !.selectedDeviceId = stream.deviceId,
          !.rtc = [p \in 1..MaxPc |->
                     IF p \in held THEN [@[p] EXCEPT !.remote = FALSE] ELSE @[p]],
          !.sent = IF held = {} THEN <<>>
                   ELSE <<[msg |-> [type |-> "offer"], onOpen |-> FALSE]>>]

\* refreshLocalStream of routes/r.$roomId.tsx after getUserMedia resolved.
\* The track is replaced on the connections that are not closed and have a
\* sender with an audio track
refreshLocalStream(m, deviceId, wasMuted) ==
    LET stream == [UserMedia(deviceId) EXCEPT !.enabled = ~wasMuted]
        senders == {e.val : e \in {x \in m.peerConnections :
                                      /\ m.rtc[x.val].state # "closed"
                                      /\ m.pcState[x.val].track # ""}}
        swapped == [m EXCEPT
                      !.localStreamRef = <<stream>>,
                      !.localStream = <<stream>>,
                      !.selectedDeviceId = stream.deviceId,
                      !.permissionState = "granted",
                      !.pcState = replaceTrack(@, senders, stream.deviceId),
                      !.replaced = senders]
    IN IF m.lastBroadcastMuteState # <<wasMuted>>
       THEN [swapped EXCEPT !.lastBroadcastMuteState = <<wasMuted>>,
                            !.sent = sendMuteState(@, wasMuted)]
       ELSE swapped

\* refreshLocalStream of hooks/useWebRTC.ts after getUserMedia resolved
hookRefreshLocalStream(m, deviceId, wasMuted) ==
    LET stream == [UserMedia(deviceId) EXCEPT !.enabled = ~wasMuted]
        senders == {e.val : e \in {x \in m.peerConnections :
                                      m.pcState[x.val].track # ""}}
    IN [m EXCEPT
          !.localStreamRef = <<stream>>,
          !.localStream = <<stream>>,
          !.selectedDeviceId = stream.deviceId,
          !.lastBroadcastMuteState = <<wasMuted>>,
          !.sent = hookSendMuteState(@, wasMuted),
          !.pcState = replaceTrack(@, senders, stream.deviceId),
          !.replaced = senders]

\* a catch that only logs: the stream and the permission state stay
refreshLocalStreamFailed_OnlyLogs(m, dismissed) == m

\* the catch of refreshLocalStream: the route clears the stream and sets the
\* permission state, 'initial' when the prompt was dismissed; the hook only
\* logs
refreshLocalStreamFailed(m, dismissed) ==
    IF build = "route"
    THEN [m EXCEPT !.localStreamRef = <<>>, !.localStream = <<>>,
                   !.permissionState = IF dismissed THEN "initial" ELSE "denied"]
    ELSE m

CommitMedia(m) ==
    /\ peerConnections' = m.peerConnections
    /\ rtc' = m.rtc
    /\ peersMap' = m.peersMap
    /\ localStreamRef' = m.localStreamRef
    /\ localStream' = m.localStream
    /\ lastBroadcastMuteState' = m.lastBroadcastMuteState
    /\ selectedDeviceId' = m.selectedDeviceId
    /\ permissionState' = m.permissionState
    /\ pcState' = m.pcState

\* refreshLocalStream up to its await of getUserMedia
StartRefresh(deviceId) ==
    refresh' = [pos |-> "getUserMedia", deviceId |-> deviceId, wasMuted |-> WasMuted,
                sent |-> <<>>, replaced |-> {}]

switchDevice(deviceId) ==
    /\ nSwitch < MaxSwitch
    /\ refresh.pos = "idle"
    /\ deviceId # selectedDeviceId
    /\ selectedDeviceId' = deviceId
    /\ StartRefresh(deviceId)
    /\ nSwitch' = nSwitch + 1
    /\ life' = [life EXCEPT !.left = FALSE]
    /\ UNCHANGED <<relayVars, now, limiterVars, fetchVars, statVars, peerVars, build, readyState,
                   peerConnections, rtc, peersMap, tasks, localStreamRef, localStream,
                   lastBroadcastMuteState, joinedRef, permissionState>>

\* retryMedia of routes/r.$roomId.tsx: fails at once when the permission is
\* blocked, and starts a capture otherwise
retryMedia(status) ==
    /\ build = "route"
    /\ refresh.pos = "idle"
    /\ IF status = "denied"
       THEN /\ permissionState' = "denied"
            /\ UNCHANGED <<refresh, life>>
       ELSE /\ permissionState' = "initial"
            /\ StartRefresh("")
            /\ life' = [life EXCEPT !.left = FALSE]
    /\ UNCHANGED <<relayVars, now, limiterVars, fetchVars, statVars, peerVars, build, readyState,
                   peerConnections, rtc, peersMap, tasks, localStreamRef, localStream,
                   lastBroadcastMuteState, joinedRef, selectedDeviceId, nSwitch>>

\* getUserMedia resolves
GotUserMedia ==
    /\ refresh.pos = "getUserMedia"
    /\ LET m == IF build = "route"
                THEN refreshLocalStream(Media, refresh.deviceId, refresh.wasMuted)
                ELSE hookRefreshLocalStream(Media, refresh.deviceId, refresh.wasMuted)
       IN /\ CommitMedia(m)
          /\ refresh' = [refresh EXCEPT !.pos = "idle", !.sent = m.sent,
                                        !.replaced = m.replaced]
    /\ UNCHANGED <<relayVars, now, limiterVars, fetchVars, statVars, heard, build, readyState, tasks,
                   joinedRef, life, nSwitch>>

\* getUserMedia rejects
UserMediaFailed ==
    /\ refresh.pos = "getUserMedia"
    /\ \E dismissed \in BOOLEAN :
          CommitMedia(refreshLocalStreamFailed(Media, dismissed))
    /\ refresh' = [refresh EXCEPT !.pos = "idle"]
    /\ UNCHANGED <<relayVars, now, limiterVars, fetchVars, statVars, heard, build, readyState, tasks,
                   joinedRef, life, nSwitch>>

\* toggleMute on a capture: flips track.enabled, sends the new flag and
\* keeps it as the last one broadcast
toggled(m) ==
    LET isMuted == m.localStreamRef[1].enabled
        stream == [m.localStreamRef[1] EXCEPT !.enabled = ~@]
    IN [m EXCEPT
          !.localStreamRef = <<stream>>,
          !.localStream = IF @ = <<>> THEN <<>> ELSE <<stream>>,
          !.sent = IF build = "route" THEN sendMuteState(@, isMuted)
                   ELSE hookSendMuteState(@, isMuted),
          !.lastBroadcastMuteState = <<isMuted>>]

\* toggleMute: flips track.enabled and tells the room; without a stream the
\* route starts a capture instead
toggleMute ==
    /\ IF localStreamRef # <<>>
       THEN LET m == toggled(Media)
            IN /\ localStreamRef' = m.localStreamRef
               /\ localStream' = m.localStream
               /\ lastBroadcastMuteState' = m.lastBroadcastMuteState
               /\ UNCHANGED <<refresh, life>>
       ELSE /\ build = "route"
            /\ refresh.pos = "idle"
            /\ StartRefresh("")
            /\ life' = [life EXCEPT !.left = FALSE]
            /\ UNCHANGED <<localStreamRef, localStream, lastBroadcastMuteState>>
    /\ UNCHANGED <<relayVars, now, limiterVars, fetchVars, statVars, peerVars, build, readyState,
                   peerConnections, rtc, peersMap, tasks, joinedRef, selectedDeviceId,
                   nSwitch, permissionState>>

\* a join sent as soon as the socket is open, with or without a capture
attemptJoin_NoCapture ==
    /\ ~joinedRef
    /\ readyState = "open"
    /\ joinedRef' = TRUE
    /\ life' = [life EXCEPT !.joins = @ + 1]
    /\ UNCHANGED <<relayVars, now, limiterVars, fetchVars, statVars, peerVars, build, readyState,
                   peerConnections, rtc, peersMap, tasks, localStreamRef, localStream,
                   lastBroadcastMuteState, selectedDeviceId, refresh, nSwitch,
                   permissionState>>

\* the join, sent once there is a stream and the socket is open
attemptJoin ==
    /\ localStreamRef # <<>>
    /\ ~joinedRef
    /\ readyState = "open"
    /\ joinedRef' = TRUE
    /\ life' = [life EXCEPT !.joins = @ + 1]
    /\ UNCHANGED <<relayVars, now, limiterVars, fetchVars, statVars, peerVars, build, readyState,
                   peerConnections, rtc, peersMap, tasks, localStreamRef, localStream,
                   lastBroadcastMuteState, selectedDeviceId, refresh, nSwitch,
                   permissionState>>

\* the socket's open event
SocketOpened ==
    /\ readyState = "connecting"
    /\ readyState' = "open"
    /\ UNCHANGED <<relayVars, now, limiterVars, fetchVars, statVars, peerVars, mediaVars, build,
                   peerConnections, rtc, peersMap, tasks>>

(***************************************************************************)
(* leave().  log is the calls it makes on the connections, the tracks and  *)
(* the socket, in order.                                                   *)
(***************************************************************************)
\* what leave reads and writes
Session ==
    [peerConnections |-> peerConnections, rtc |-> rtc, peersMap |-> peersMap,
     localStreamRef |-> localStreamRef, localStream |-> localStream,
     joinedRef |-> joinedRef, readyState |-> readyState, log |-> <<>>]

\* peerConnections.current.forEach((pc) => pc.close()); clear()
closeAll(s) ==
    LET held == {e.val : e \in s.peerConnections}
    IN [s EXCEPT
          !.rtc = [p \in 1..MaxPc |->
                     IF p \in held THEN [@[p] EXCEPT !.state = "closed"] ELSE @[p]],
          !.peerConnections = {},
          !.log = IF held = {} THEN @ ELSE Append(@, [call |-> "pc.close", on |-> held])]

\* a leave that stops the tracks and keeps the reference to the stream
stopTracks_KeepsRef(s) ==
    LET stopped == IF s.localStreamRef # <<>>
                   THEN [s EXCEPT !.log = Append(@, [call |-> "track.stop", on |-> {}])]
                   ELSE s
    IN [stopped EXCEPT !.localStream = <<>>]

\* if (localStreamRef.current) { stop every track; localStreamRef.current =
\* null }; setLocalStream(null)
stopTracks(s) ==
    LET stopped == IF s.localStreamRef # <<>>
                   THEN [s EXCEPT !.localStreamRef = <<>>,
                                  !.log = Append(@, [call |-> "track.stop", on |-> {}])]
                   ELSE s
    IN [stopped EXCEPT !.localStream = <<>>]

\* socket.close() in one of the states given
closeSocket(s, states) ==
    IF s.readyState \in states
    THEN [s EXCEPT !.readyState = "closed",
                   !.log = Append(@, [call |-> "socket.close", on |-> {}])]
    ELSE s

\* leave of routes/r.$roomId.tsx
routeLeave(s) ==
    LET closed == closeAll(s)
        stopped == stopTracks(closed)
        reset == [stopped EXCEPT !.peersMap = {}, !.joinedRef = FALSE]
    IN closeSocket(reset, {"open"})

\* leave of hooks/useWebRTC.ts
hookLeave(s) ==
    LET closed == [closeAll(s) EXCEPT !.joinedRef = FALSE]
        stopped == stopTracks(closed)
        hungUp == closeSocket(stopped, {"open", "connecting"})
    IN [hungUp EXCEPT !.peersMap = {}]

Left(s) == IF build = "route" THEN routeLeave(s) ELSE hookLeave(s)

leave ==
    /\ LET s == Left(Session)
       IN /\ peerConnections' = s.peerConnections
          /\ rtc' = s.rtc
          /\ peersMap' = s.peersMap
          /\ localStreamRef' = s.localStreamRef
          /\ localStream' = s.localStream
          /\ joinedRef' = s.joinedRef
          /\ life' = [life EXCEPT !.left = TRUE]
          /\ readyState' = s.readyState
    /\ CommitMonitors(IF build = "hook" THEN stopAll(Monitors) ELSE Monitors)
    /\ UNCHANGED <<relayVars, now, limiterVars, fetchVars, sampling, peerVars, build, tasks,
                   lastBroadcastMuteState, selectedDeviceId, refresh, nSwitch,
                   permissionState>>

\* the connection to the relay is lost, or the relay closes it
SocketClosed ==
    /\ readyState = "open"
    /\ readyState' = "closed"
    /\ UNCHANGED <<relayVars, now, limiterVars, fetchVars, statVars, peerVars, mediaVars, build, peerConnections, rtc,
                   peersMap, tasks>>

InitClient ==
    /\ InitRelay(Constructed)
    /\ InitLimiter
    /\ \E b \in Builds : InitOrchestrator(b)
    /\ InitFetch

NextClient ==
    \/ \E x \in Remotes : OnUserJoined(x)
    \/ \E x \in Remotes : OnOffer(x)
    \/ \E x \in Remotes : OnAnswer(x)
    \/ \E x \in Remotes : OnUserLeft(x)
    \/ \E p \in 1..MaxPc : OnTrack(p)
    \/ \E t \in 1..MaxTasks : Settle(t)
    \/ \E t \in 1..MaxTasks : Reject(t)
    \/ leave
    \/ SocketClosed

SpecClient == InitClient /\ [][NextClient]_vars

(***************************************************************************)
(* SpecMedia: the orchestrator from its mount on.  The socket is still     *)
(* connecting, the first refreshLocalStream awaits getUserMedia and no     *)
(* join has been sent.  The relay sends user-joined to joined clients only.*)
(***************************************************************************)
InitMounted ==
    /\ build \in Builds
    /\ readyState = "connecting"
    /\ peerConnections = {}
    /\ rtc = [p \in 1..MaxPc |-> [state |-> "unused", target |-> Null, remote |-> FALSE]]
    /\ peersMap = {}
    /\ tasks = [t \in 1..MaxTasks |->
                  [h |-> "none", peer |-> Null, pc |-> 0, pos |-> "idle",
                   sent |-> <<>>, links |-> 0, open |-> FALSE]]
    /\ localStreamRef = <<>>
    /\ localStream = <<>>
    /\ lastBroadcastMuteState = <<>>
    /\ joinedRef = FALSE
    /\ life = [joins |-> 0, left |-> FALSE]
    /\ selectedDeviceId = ""
    /\ refresh = [Idle EXCEPT !.pos = "getUserMedia"]
    /\ nSwitch = 0
    /\ permissionState = "initial"
    /\ pcState = [p \in 1..MaxPc |-> Constructing("")]
    /\ heard = [x \in Remotes |-> <<>>]
    /\ audioMonitors = {}
    /\ statsMonitors = {}
    /\ peerHealth = {}
    /\ sampling = {}
    /\ intervals = {}

InitMediaSpec ==
    /\ InitRelay(Constructed)
    /\ InitLimiter
    /\ InitFetch
    /\ InitMounted

\* user-joined{x} arrives: the relay sends it to registered sessions only
Announced(x) == joinedRef /\ OnUserJoined(x)

NextMedia ==
    \/ SocketOpened
    \/ GotUserMedia
    \/ UserMediaFailed
    \/ attemptJoin
    \/ \E d \in Devices : switchDevice(d)
    \/ toggleMute
    \/ \E x \in Remotes : Announced(x)
    \/ \E t \in 1..MaxTasks : Settle(t)
    \/ leave

SpecMedia == InitMediaSpec /\ [][NextMedia]_vars

(***************************************************************************)
(* SpecRetry: the orchestrator from its mount on, with captures that fail  *)
(* and the retry the page offers then.                                     *)
(***************************************************************************)
\* what navigator.permissions.query reports for the microphone
PermissionStatus == {"granted", "prompt", "denied"}

NextRetry ==
    \/ SocketOpened
    \/ GotUserMedia
    \/ UserMediaFailed
    \/ attemptJoin
    \/ \E d \in Devices : switchDevice(d)
    \/ \E status \in PermissionStatus : retryMedia(status)
    \/ \E x \in Remotes : Announced(x)
    \/ \E t \in 1..MaxTasks : Settle(t)

SpecRetry == InitMediaSpec /\ [][NextRetry]_vars

(***************************************************************************)
(* SpecStats: the orchestrator in a call, with the timers of the stats     *)
(* monitors.  A sample is a call of pc.getStats() that resolves later with *)
(* a round-trip time (<<>>: no nominated pair reports one) and the totals  *)
(* of the inbound audio stream (<<>>: no such report), or rejects.  A loss *)
(* percentage is kept as the fraction num / den it is computed from.       *)
(***************************************************************************)
\* report.currentRoundTripTime * 1000
RttSamples == {<<>>, <<250>>, <<251>>, <<400>>, <<401>>}

\* packets received and lost between two samples
ReceivedDeltas == {0, 23, 24}
LostDeltas == {0, 1, 2}

\* lossPercent > percent
LossAbove(lossPercent, percent) ==
    lossPercent # <<>> /\ lossPercent[1].num > percent * lossPercent[1].den

deriveQuality_LossOnly(rttMs, lossPercent) ==
    IF LossAbove(lossPercent, 8) THEN "bad"
    ELSE IF LossAbove(lossPercent, 4) THEN "degraded"
    ELSE "good"

deriveQuality(rttMs, lossPercent) ==
    LET highLoss == LossAbove(lossPercent, 8)
        medLoss == LossAbove(lossPercent, 4)
        highRtt == rttMs # <<>> /\ rttMs[1] > 400
        medRtt == rttMs # <<>> /\ rttMs[1] > 250
    IN IF highLoss \/ highRtt THEN "bad"
       ELSE IF medLoss \/ medRtt THEN "degraded"
       ELSE "good"

\* the totals the entry of peerId holds, 0 where there is none
Previous(m, peerId) ==
    IF MapHas(m.statsMonitors, peerId)
    THEN MapGet(m.statsMonitors, peerId)
    ELSE [intervalId |-> 0, prevReceived |-> 0, prevLost |-> 0]

\* the interval callback of startStatsMonitor after getStats resolved
sampled(m, peerId, intervalId, rttMs, report) ==
    LET prev == Previous(m, peerId)
        deltaReceived == report[1].packetsReceived - prev.prevReceived
        deltaLost == report[1].packetsLost - prev.prevLost
        lossPercent ==
            IF report # <<>> /\ deltaReceived + deltaLost > 0
            THEN <<[num |-> deltaLost * 100, den |-> deltaReceived + deltaLost]>>
            ELSE <<>>
        kept == IF report = <<>> THEN m
                ELSE [m EXCEPT !.statsMonitors =
                        MapSet(@, peerId,
                               [intervalId |-> intervalId,
                                prevReceived |-> report[1].packetsReceived,
                                prevLost |-> report[1].packetsLost])]
    IN [kept EXCEPT !.peerHealth =
          MapSet(@, peerId, [rttMs |-> rttMs, lossPercent |-> lossPercent,
                             quality |-> deriveQuality(rttMs, lossPercent)])]

\* the timer of a stats monitor fires: the callback calls pc.getStats()
Sample(i) ==
    /\ i \in intervals
    /\ sampling' = sampling \cup {[peerId |-> rtc[i].target, intervalId |-> i]}
    /\ UNCHANGED <<relayVars, now, limiterVars, fetchVars, audioMonitors, statsMonitors,
                   peerHealth, intervals, peerVars, mediaVars, build, readyState,
                   peerConnections, rtc, peersMap, tasks>>

\* getStats resolves
Sampled(c, rttMs, report) ==
    /\ c \in sampling
    /\ CommitMonitors(sampled(Monitors, c.peerId, c.intervalId, rttMs, report))
    /\ sampling' = sampling \ {c}
    /\ UNCHANGED <<relayVars, now, limiterVars, fetchVars, peerVars, mediaVars, build,
                   readyState, peerConnections, rtc, peersMap, tasks>>

\* getStats rejects: the callback logs
SampleFailed(c) ==
    /\ c \in sampling
    /\ sampling' = sampling \ {c}
    /\ UNCHANGED <<relayVars, now, limiterVars, fetchVars, audioMonitors, statsMonitors,
                   peerHealth, intervals, peerVars, mediaVars, build, readyState,
                   peerConnections, rtc, peersMap, tasks>>

\* what getStats can report of the inbound audio stream to the callback c;
\* the totals of a stream never go down
Reports(c) ==
    LET prev == Previous(Monitors, c.peerId)
    IN {<<>>} \cup
       {<<[packetsReceived |-> prev.prevReceived + r, packetsLost |-> prev.prevLost + l]>> :
           r \in {d \in ReceivedDeltas : prev.prevReceived + d <= MaxPackets},
           l \in {d \in LostDeltas : prev.prevLost + d <= MaxLost}}

\* the remote participant the events of SpecStats are about
Monitored == "B"

NextStats ==
    \/ OnOffer(Monitored)
    \/ OnUserLeft(Monitored)
    \/ \E i \in 1..MaxPc : Sample(i)
    \/ \E c \in sampling, rttMs \in RttSamples :
          \E report \in Reports(c) : Sampled(c, rttMs, report)
    \/ \E c \in sampling : SampleFailed(c)

SpecStats == InitClient /\ [][NextStats]_vars

(***************************************************************************)
(* SpecPeers: the orchestrator in a call, its socket open, with every      *)
(* message the relay can deliver about a remote participant: the           *)
(* negotiation, its candidates and its mute state.                         *)
(***************************************************************************)
NextPeers ==
    \/ \E x \in Remotes : OnUserJoined(x)
    \/ \E x \in Remotes : OnOffer(x)
    \/ \E x \in Remotes : OnAnswer(x)
    \/ \E x \in Remotes : OnCandidate(x)
    \/ \E x \in Remotes, muted \in BOOLEAN : OnMuteState(x, muted)
    \/ \E x \in Remotes : OnUserLeft(x)
    \/ \E p \in 1..MaxPc : OnTrack(p)
    \/ \E t \in 1..MaxTasks : Settle(t)
    \/ \E t \in 1..MaxTasks : Reject(t)

SpecPeers == InitClient /\ [][NextPeers]_vars

(***************************************************************************)
(* SpecFetch: the upgrade requests the object is handed.  A request is the *)
(* Upgrade header, the URL (scheme, hostname, port; "" is the default      *)
(* port, which URL.host leaves out), the X-Forwarded-Proto header and the  *)
(* Origin header: absent, the empty string, a string new URL() throws on,  *)
(* or a URL with its host.  An accepted upgrade takes the next channel.    *)
(***************************************************************************)
Hostnames == {"localhost", "127.0.0.1", "room.example"}
Ports == {"", "8787"}

Origins ==
    [kind : {"absent", "empty", "unparsable"}]
        \cup [kind : {"url"}, hostname : {"room.example", "evil.example"}, port : Ports]

Requests ==
    [upgrade : {Null, "websocket", "h2c"},
     scheme : {"http", "https"},
     hostname : Hostnames,
     port : Ports,
     forwardedProto : {Null, "http", "https"},
     origin : Origins]

\* URL.host: the hostname and the port
Host(url) == <<url.hostname, url.port>>

\* forwardedProto ?? url.protocol.replace(":", "")
Proto(request) ==
    IF request.forwardedProto # Null THEN request.forwardedProto ELSE request.scheme

\* fetch() without the comparison of the Origin with the host
fetch_NoOriginCheck(request) ==
    IF request.upgrade = Null \/ request.upgrade # "websocket"
    THEN [status |-> 426, webSocket |-> FALSE]
    ELSE LET isLocal == request.hostname = "localhost" \/ request.hostname = "127.0.0.1"
         IN IF ~isLocal /\ Proto(request) # "https"
            THEN [status |-> 400, webSocket |-> FALSE]
            ELSE [status |-> 101, webSocket |-> TRUE]

\* fetch(request): the status of the response, and whether a WebSocketPair
\* was made and handed to handleSession
fetch(request) ==
    IF request.upgrade = Null \/ request.upgrade # "websocket"
    THEN [status |-> 426, webSocket |-> FALSE]
    ELSE LET isLocal == request.hostname = "localhost" \/ request.hostname = "127.0.0.1"
             origin == request.origin
         IN IF ~isLocal /\ Proto(request) # "https"
            THEN [status |-> 400, webSocket |-> FALSE]
            ELSE IF ~isLocal /\ origin.kind \notin {"absent", "empty"}
                             /\ origin.kind = "unparsable"
            THEN [status |-> 403, webSocket |-> FALSE]
            ELSE IF ~isLocal /\ origin.kind \notin {"absent", "empty"}
                             /\ Host(origin) # Host(request)
            THEN [status |-> 403, webSocket |-> FALSE]
            ELSE [status |-> 101, webSocket |-> TRUE]

\* channels not handed to handleSession yet
Unaccepted(c) == chan[c].state = "closed"

\* ws.accept(), clientId = null, the listeners added
handleSession(c) ==
    chan' = [chan EXCEPT ![c] = [state |-> "open", clientId |-> Null, closeCode |-> 0]]

Fetch(request) ==
    LET response == fetch(request)
    IN /\ lastFetch' = <<[request |-> request, status |-> response.status]>>
       /\ IF response.webSocket
          THEN \E c \in Chans :
                  /\ Unaccepted(c)
                  /\ \A d \in Chans : d < c => ~Unaccepted(d)
                  /\ handleSession(c)
          ELSE chan' = chan
       /\ UNCHANGED <<sessions, muteStates, rateLimits, now, nSteps, roster, joins>>
       /\ UNCHANGED <<limiterVars, clientVars>>

\* the object as constructed, before any upgrade
InitUpgrade ==
    /\ sessions = {}
    /\ muteStates = {}
    /\ rateLimits = <<>>
    /\ chan = [c \in Chans |-> [state |-> "closed", clientId |-> Null, closeCode |-> 0]]
    /\ now = 0
    /\ nSteps = 0
    /\ roster = [c \in Chans |-> {}]
    /\ joins = [c \in Chans |-> 0]
    /\ InitLimiter
    /\ InitOrchestrator("route")
    /\ InitFetch

NextFetch == \E request \in Requests : Fetch(request)

SpecFetch == InitUpgrade /\ [][NextFetch]_vars

(***************************************************************************)
(* Properties of the relay.  A listener's sends are read off its result:   *)
(* out of handleJoin, handleSignal, handleMuteState and handleClose in the *)
(* current state, for every input the listener may get.                    *)
(***************************************************************************)
\* the channels on which a close or error event can still be dispatched
CanClose(c) == chan[c].state \in {"open", "broken", "errored"}

\* channel c is the live holder of the identity its closure names
Holds(c) == CanReceive(c) /\ chan[c].clientId # Null

Registered(c, id) ==
    \E e \in sessions : e.key = id /\ e.val.ws = c /\ e.val.connectionId = ConnectionId(c)

\* C1: the registry holds at most one session per identity, and every
\* channel that is live and has joined as X is the one registered for X, so
\* no two live channels hold the same identity.
C1_OneSessionPerIdentity ==
    /\ \A e1, e2 \in sessions : e1.key = e2.key => e1 = e2
    /\ \A c \in Chans : Holds(c) => Registered(c, chan[c].clientId)
    /\ \A c, d \in Chans :
         Holds(c) /\ Holds(d) /\ chan[c].clientId = chan[d].clientId => c = d

\* a second channel claimed an identity with a live holder and was turned away
C1_Witness ==
    \E c, d \in Chans :
        /\ c # d
        /\ Holds(c)
        /\ chan[d].closeCode = CLOSE_CLIENT_ID_IN_USE
        /\ chan[d].clientId = chan[c].clientId

\* C2 (as claimed): a join for a registered identity is answered with
\* error{client-id-in-use} and close code 4409, and the registry entry of
\* that identity is changed neither by the rejected join nor by the close
\* event of the rejected channel.
C2_RejectedJoinKeepsHolder ==
    /\ \A c \in Chans, m \in JoinMsgs :
         CanReceive(c) /\ MapHas(sessions, m.clientId) =>
           LET r == handleJoin(c, m)
           IN /\ r.out = <<[to |-> c, sid |-> Null,
                            msg |-> [type |-> "error", reason |-> "client-id-in-use"],
                            ok |-> TRUE]>>
              /\ r.closeCode = CLOSE_CLIENT_ID_IN_USE
              /\ r.sessions = sessions
    /\ \A c \in Chans :
         /\ CanClose(c)
         /\ chan[c].closeCode = CLOSE_CLIENT_ID_IN_USE
         /\ MapHas(sessions, chan[c].clientId)
         => LET r == handleClose(c)
            IN /\ MapHas(r.sessions, chan[c].clientId)
               /\ MapGet(r.sessions, chan[c].clientId) = MapGet(sessions, chan[c].clientId)

\* the part of C2 that the code keeps: the rejected channel is not the holder
C2_RejectedOtherChannel ==
    /\ \A c \in Chans, m \in JoinMsgs :
         CanReceive(c) /\ MapHas(sessions, m.clientId) =>
           LET r == handleJoin(c, m)
           IN /\ r.out = <<[to |-> c, sid |-> Null,
                            msg |-> [type |-> "error", reason |-> "client-id-in-use"],
                            ok |-> TRUE]>>
              /\ r.closeCode = CLOSE_CLIENT_ID_IN_USE
              /\ r.sessions = sessions
    /\ \A c \in Chans :
         /\ CanClose(c)
         /\ chan[c].closeCode = CLOSE_CLIENT_ID_IN_USE
         /\ MapHas(sessions, chan[c].clientId)
         /\ MapGet(sessions, chan[c].clientId).ws # c
         => handleClose(c).sessions = sessions

\* C3: the close or error event of a channel whose connection id is not the
\* one registered for its identity removes neither the registered session
\* nor its mute-cache entry, and sends no user-left.
Stale(c) ==
    /\ CanClose(c)
    /\ chan[c].clientId # Null
    /\ MapHas(sessions, chan[c].clientId)
    /\ MapGet(sessions, chan[c].clientId).connectionId # ConnectionId(c)

C3_StaleCloseIgnored ==
    \A c \in Chans :
        Stale(c) =>
          LET r == handleClose(c)
          IN /\ r.sessions = sessions
             /\ r.muteStates = muteStates
             /\ r.out = <<>>

\* the identity of a lost channel has been registered again by a newer
\* channel, its mute state is cached, and the close event of the lost
\* channel is still to come
C3_Witness ==
    \E c \in Chans :
        /\ Stale(c)
        /\ chan[c].state = "broken"
        /\ chan[c].closeCode = 0
        /\ MapHas(muteStates, chan[c].clientId)
        /\ Holds(MapGet(sessions, chan[c].clientId).ws)

\* C4: for one identity, counting the calls of consumeRateLimit within a
\* window from 1: call number n is admitted exactly when n <= 80, so the
\* first 80 are admitted and the 81st is rejected; a call made more than
\* 10 000 ms after windowStart is call number 1 of a fresh window, which it
\* starts at the time of the call with count 1, and is admitted; a call made
\* no later than that stays in the window.
C4_FixedWindowLimiter ==
    gCalls > 0 =>
        /\ admitted <=> gCalls <= RATE_LIMIT_MAX
        /\ "A" \in DOMAIN rateLimits
        /\ rateLimits["A"].windowStart = gStart
        /\ rateLimits["A"].count = IF gCalls <= RATE_LIMIT_MAX THEN gCalls ELSE RATE_LIMIT_MAX

\* a second window was started after the first had elapsed, its 80
\* admissions were used, and the 81st call was rejected
C4_Witness ==
    /\ gWindows = 2
    /\ gStart > RATE_LIMIT_WINDOW_MS
    /\ gCalls = RATE_LIMIT_MAX + 1
    /\ ~admitted

\* the sends of a result, picked out by the type of the message
OfType(out, type) == {i \in 1..Len(out) : out[i].msg.type = type}

\* the calls of ws.send for entry e of the registry carrying msg
SendsTo(out, e, msg) ==
    {i \in 1..Len(out) : out[i].to = e.val.ws /\ out[i].sid = e.key /\ out[i].msg = msg}

UserJoined(id) == [type |-> "user-joined", clientId |-> id]

UserLeft(id) == [type |-> "user-left", clientId |-> id]

MuteStateOf(id, muted) == [type |-> "mute-state", senderClientId |-> id, muted |-> muted]

\* a broadcast of msg over the entries of pre, result r: an entry whose send
\* throws is gone from the registry, every other entry is still registered
\* and the message was delivered to it exactly once
Isolated(pre, msg, r) ==
    \A e \in pre :
        IF SendThrows(e.val.ws)
        THEN /\ ~MapHas(r.sessions, e.key)
             /\ \A i \in SendsTo(r.out, e, msg) : ~r.out[i].ok
        ELSE /\ e \in r.sessions
             /\ Cardinality(SendsTo(r.out, e, msg)) = 1
             /\ \A i \in SendsTo(r.out, e, msg) : r.out[i].ok

\* C5: in each of the three broadcasts (user-joined of an accepted join,
\* mute-state, user-left of a teardown) a recipient whose send throws is
\* removed from the registry, and every other recipient is delivered the
\* message exactly once and stays registered.
C5_FailingSendIsolated ==
    \A c \in Chans :
        /\ \A m \in JoinMsgs :
             CanReceive(c) =>
               LET r == handleJoin(c, m)
               IN r.branch = "accepted" =>
                    Isolated(sessions, UserJoined(m.clientId), r)
        /\ \A m \in MuteStateMsgs :
             CanReceive(c) =>
               LET r == handleMuteState(c, m)
               IN r.branch = "broadcast" =>
                    Isolated(MapDelete(sessions, m.senderClientId),
                             MuteStateOf(m.senderClientId, m.muted), r)
        /\ CanClose(c) =>
               LET r == handleClose(c)
               IN r.branch = "teardown" =>
                    Isolated(MapDelete(sessions, chan[c].clientId),
                             UserLeft(chan[c].clientId), r)

\* a broadcast in which the send to exactly one recipient throws and at
\* least one other recipient is delivered the message
C5_Witness ==
    \E c \in Chans, m \in JoinMsgs :
        /\ CanReceive(c)
        /\ LET r == handleJoin(c, m)
               uj == OfType(r.out, "user-joined")
           IN /\ r.branch = "accepted"
              /\ Cardinality({i \in uj : ~r.out[i].ok}) = 1
              /\ Cardinality({i \in uj : r.out[i].ok}) >= 1
              /\ Cardinality(r.sessions) = Cardinality(sessions)

\* C6: an accepted join of X sends every session registered before it
\* exactly one user-joined{X}; no user-joined goes to the entry of X, none
\* names another identity, and the newcomer's own socket is handed none.
C6_UserJoinedToOthersOnly ==
    \A c \in Chans, m \in JoinMsgs :
        CanReceive(c) =>
          LET r == handleJoin(c, m)
              uj == OfType(r.out, "user-joined")
          IN r.branch = "accepted" =>
             /\ \A e \in sessions :
                   Cardinality(SendsTo(r.out, e, UserJoined(m.clientId))) = 1
             /\ \A i \in uj :
                   /\ r.out[i].msg = UserJoined(m.clientId)
                   /\ r.out[i].sid # m.clientId
                   /\ r.out[i].sid # Null
                   /\ MapHas(sessions, r.out[i].sid)
             /\ Cardinality(uj) = Cardinality(sessions)

\* a join was accepted with two other sessions registered, each on a live
\* channel of its own, and each was delivered the user-joined
C6_Witness ==
    \E c \in Chans, m \in JoinMsgs :
        /\ CanReceive(c)
        /\ chan[c].clientId = Null
        /\ LET r == handleJoin(c, m)
               uj == OfType(r.out, "user-joined")
           IN /\ r.branch = "accepted"
              /\ Cardinality({r.out[i].to : i \in {j \in uj : r.out[j].ok}}) = 2
              /\ \A i \in uj : r.out[i].to # c

\* C7: the sends of an accepted join to the newcomer's socket are mute-state
\* messages only, exactly one per entry of the mute cache and with the cached
\* value; no mute-state goes to anyone else; and every one of them comes
\* after all the user-joined sends of the broadcast.
C7_ReplayAfterBroadcast ==
    \A c \in Chans, m \in JoinMsgs :
        CanReceive(c) =>
          LET r == handleJoin(c, m)
              ms == OfType(r.out, "mute-state")
              uj == OfType(r.out, "user-joined")
          IN r.branch = "accepted" =>
             /\ \A i \in 1..Len(r.out) : r.out[i].sid = Null <=> i \in ms
             /\ \A i \in ms : r.out[i].to = c /\ r.out[i].ok
             /\ \A e \in muteStates :
                   Cardinality({i \in ms : r.out[i].msg = MuteStateOf(e.key, e.val)}) = 1
             /\ Cardinality(ms) = Cardinality(muteStates)
             /\ \A i \in ms, j \in uj : j < i

\* a join is accepted with two participants in the mute cache and a session
\* registered: the broadcast reaches the session, then two replays follow
C7_Witness ==
    \E c \in Chans, m \in JoinMsgs :
        /\ CanReceive(c)
        /\ LET r == handleJoin(c, m)
           IN /\ r.branch = "accepted"
              /\ Cardinality(OfType(r.out, "mute-state")) = 2
              /\ Cardinality(OfType(r.out, "user-joined")) >= 1

\* C8: a mute-state{A, m} that is admitted from the channel registered as A
\* leaves the mute cache mapping A to m, sends every other registered
\* session exactly one mute-state{A, m}, and sends none to the entry of A.
C8_MuteStateCachedAndBroadcast ==
    \A c \in Chans, m \in MuteStateMsgs :
        /\ CanReceive(c)
        /\ chan[c].clientId = m.senderClientId
        /\ Registered(c, m.senderClientId)
        => LET r == handleMuteState(c, m)
               ms == OfType(r.out, "mute-state")
           IN r.branch = "broadcast" =>
              /\ {e \in r.muteStates : e.key = m.senderClientId}
                    = {[key |-> m.senderClientId, val |-> m.muted]}
              /\ \A e \in sessions :
                    e.key # m.senderClientId =>
                      Cardinality(SendsTo(r.out, e, MuteStateOf(m.senderClientId, m.muted))) = 1
              /\ \A i \in 1..Len(r.out) :
                    /\ i \in ms
                    /\ r.out[i].msg = MuteStateOf(m.senderClientId, m.muted)
                    /\ r.out[i].sid # m.senderClientId
              /\ Cardinality(ms) = Cardinality(sessions) - 1

\* the registered sender flips its cached mute state and two other sessions
\* are delivered the update
C8_Witness ==
    \E c \in Chans, m \in MuteStateMsgs :
        /\ CanReceive(c)
        /\ chan[c].clientId = m.senderClientId
        /\ Registered(c, m.senderClientId)
        /\ MapHas(muteStates, m.senderClientId)
        /\ MapGet(muteStates, m.senderClientId) # m.muted
        /\ LET r == handleMuteState(c, m)
           IN /\ r.branch = "broadcast"
              /\ Cardinality({i \in 1..Len(r.out) : r.out[i].ok}) = 2

SignalTo(type, target) ==
    [type |-> type, targetClientId |-> target, payload |-> "sdp",
     senderClientId |-> LocalId]

\* C9: an invocation of handleUserJoined for B sends at most one message, an
\* offer addressed to B, and exactly one once it has run to its end with the
\* socket open; an invocation of handleOffer for an offer of A leaves exactly
\* one PeerLink for A when it reaches its first await, and sends at most one
\* message, an answer addressed to A, and exactly one once it has run to its
\* end with the socket open.
C9_OneOfferOneAnswer ==
    \A t \in 1..MaxTasks :
        LET k == tasks[t]
        IN /\ k.h = "user-joined" =>
                /\ k.sent \in {<<>>, <<SignalTo("offer", k.peer)>>}
                /\ k.pos = "done" /\ k.open => k.sent = <<SignalTo("offer", k.peer)>>
                /\ k.links = 1
           /\ k.h = "offer" =>
                /\ k.sent \in {<<>>, <<SignalTo("answer", k.peer)>>}
                /\ k.pos = "done" /\ k.open => k.sent = <<SignalTo("answer", k.peer)>>
                /\ k.links = 1
           /\ k.pos \in Awaiting \cup {"failed"} => k.sent = <<>>

\* one handler has sent its offer to B and another its answer to C, each on
\* a PeerLink of its own
C9_Witness ==
    \E t, u \in 1..MaxTasks :
        /\ tasks[t].h = "user-joined"
        /\ tasks[t].pos = "done"
        /\ tasks[t].sent = <<SignalTo("offer", tasks[t].peer)>>
        /\ tasks[u].h = "offer"
        /\ tasks[u].pos = "done"
        /\ tasks[u].sent = <<SignalTo("answer", tasks[u].peer)>>
        /\ tasks[u].links = 1
        /\ tasks[u].pc # tasks[t].pc

\* C10 (as claimed): when user-joined{X} is handled while a PeerLink for X
\* exists, the old connection is closed and no longer held, X is no longer in
\* the visible peer set, and exactly one new PeerLink for X is held, with no
\* second open connection for X alive.
C10_GhostReplaced ==
    [][\A x \in Remotes :
          OnUserJoined(x) /\ MapHas(peerConnections, x) =>
            /\ rtc'[MapGet(peerConnections, x)].state = "closed"
            /\ MapHas(peerConnections', x)
            /\ MapGet(peerConnections', x) # MapGet(peerConnections, x)
            /\ rtc'[MapGet(peerConnections', x)].state = "open"
            /\ ~MapHas(peersMap', x)
            /\ Cardinality({e \in peerConnections' : e.key = x}) = 1
            /\ Cardinality({p \in 1..MaxPc :
                               rtc'[p].state = "open" /\ rtc'[p].target = x}) = 1]_vars

\* the part of C10 every hook keeps: at most one open connection per remote id
C10_AtMostOneLink ==
    \A x \in Remotes :
        /\ Cardinality({p \in 1..MaxPc : rtc[p].state = "open" /\ rtc[p].target = x}) <= 1
        /\ Cardinality({e \in peerConnections : e.key = x}) <= 1

\* the part of C10 the hook of the route keeps
C10_GhostReplacedByRoute ==
    [][\A x \in Remotes :
          build = "route" /\ OnUserJoined(x) /\ MapHas(peerConnections, x) =>
            /\ rtc'[MapGet(peerConnections, x)].state = "closed"
            /\ MapGet(peerConnections', x) # MapGet(peerConnections, x)
            /\ rtc'[MapGet(peerConnections', x)].state = "open"
            /\ ~MapHas(peersMap', x)]_vars

(***************************************************************************)
(* The relay of an admitted signal.                                        *)
(***************************************************************************)
\* what relayMessage is to have done with message, given the registry before
RelayedToTargetOnly(message, r) ==
    IF MapHas(sessions, message.targetClientId)
    THEN LET e == CHOOSE x \in sessions : x.key = message.targetClientId
         IN /\ Len(r.out) = 1
            /\ r.out[1].to = e.val.ws
            /\ r.out[1].sid = e.key
            /\ r.out[1].msg = message
            /\ r.muteStates = muteStates
            /\ \A x \in sessions \ {e} : x \in r.sessions
    ELSE /\ r.out = <<>>
         /\ r.sessions = sessions
         /\ r.muteStates = muteStates

\* C12: an admitted offer, answer or ice-candidate is sent once, with the
\* fields of the schema as received, to the socket registered under its
\* targetClientId and to no other; with no session registered under that
\* identity nothing is sent at all, and the registry and the mute cache stay
\* as they were.
C12_RelayedToTargetOnly ==
    \A c \in Chans :
        CanReceive(c) =>
            /\ \A m \in SignalMsgs :
                   LET r == handleSignal(c, m)
                   IN r.branch = "relayed" => RelayedToTargetOnly(m, r)
            /\ \A v \in Padded :
                   LET r == handleMessage(c, Frame(v))
                       m == [f \in DOMAIN v \ {"extra"} |-> v[f]]
                   IN r.branch = "relayed" => RelayedToTargetOnly(m, r)

\* a joined channel sends an offer for an identity registered on another
\* channel, and
\* an offer for an identity nobody holds
C12_Witness ==
    \E c \in Chans :
        /\ Holds(c)
        /\ Cardinality(sessions) >= 2
        /\ \E m, n \in SignalMsgs :
              /\ MapHas(sessions, m.targetClientId)
              /\ MapGet(sessions, m.targetClientId).ws # c
              /\ handleSignal(c, m).branch = "relayed"
              /\ Len(handleSignal(c, m).out) = 1
              /\ handleSignal(c, m).out[1].ok
              /\ ~MapHas(sessions, n.targetClientId)
              /\ handleSignal(c, n).branch = "relayed"
              /\ handleSignal(c, n).out = <<>>

\* C13: an offer, answer or ice-candidate is forwarded only if the channel
\* that sent it holds a registered session and the rate limiter admitted
\* it; a channel that has not completed a join gets nothing forwarded.
C13_ForwardedOnlyFromJoined ==
    \A c \in Chans :
        CanReceive(c) =>
            \A m \in SignalMsgs :
                handleSignal(c, m).out # <<>> =>
                    /\ chan[c].clientId # Null
                    /\ Registered(c, chan[c].clientId)
                    /\ consumeRateLimit(rateLimits, chan[c].clientId, now).ok

(***************************************************************************)
(* A message the rate limiter rejects.                                     *)
(***************************************************************************)
\* the limiter has no room left for the identity channel c joined with
Exhausted(c) ==
    /\ Holds(c)
    /\ ~consumeRateLimit(rateLimits, chan[c].clientId, now).ok

Rejected(r) ==
    /\ r.branch = "rate-limit"
    /\ r.out = <<>>
    /\ r.sessions = sessions
    /\ r.muteStates = muteStates
    /\ r.rateLimits = rateLimits
    /\ r.closeCode = CLOSE_RATE_LIMIT

\* C14: a message of a joined channel that the rate limiter rejects is
\* neither relayed nor written to the mute cache, no session is sent
\* anything, and the channel is closed with 4410, which is not the code 4409
\* of a duplicate identity.
C14_RejectedMessageDropped ==
    /\ CLOSE_RATE_LIMIT = 4410
    /\ CLOSE_RATE_LIMIT # CLOSE_CLIENT_ID_IN_USE
    /\ \A c \in Chans :
           Exhausted(c) =>
               /\ \A m \in SignalMsgs : Rejected(handleSignal(c, m))
               /\ \A m \in MuteStateMsgs : Rejected(handleMuteState(c, m))

\* A has used its window up while B is registered on another channel: a
\* mute-state of A that would change the cache and an offer for B are at hand
C14_Witness ==
    \E c \in Chans :
        /\ Exhausted(c)
        /\ \E e \in sessions : e.val.ws # c /\ ~SendThrows(e.val.ws)
        /\ \E m \in MuteStateMsgs :
              /\ ~MapHas(muteStates, m.senderClientId) \/ MapGet(muteStates, m.senderClientId) # m.muted
              /\ handleMuteState(c, m).branch = "rate-limit"
        /\ \E m \in SignalMsgs :
              /\ MapHas(sessions, m.targetClientId)
              /\ MapGet(sessions, m.targetClientId).ws # c
              /\ handleSignal(c, m).branch = "rate-limit"

C16_InvalidMessageIgnored ==
    \A c \in Chans :
        CanReceive(c) =>
            \A event \in InvalidFrames :
                LET r == handleMessage(c, event)
                IN /\ r.sessions = sessions
                   /\ r.muteStates = muteStates
                   /\ r.rateLimits = rateLimits
                   /\ r.out = <<>>
                   /\ r.closeCode = 0
                   /\ r.clientId = chan[c].clientId

\* a joined channel, with other sessions registered and a mute state cached,
\* delivers each kind of unacceptable data, while the same channel's
\* well-formed mute-state is acted on
C16_Witness ==
    \E c \in Chans :
        /\ Holds(c)
        /\ Cardinality(sessions) >= 2
        /\ muteStates # {}
        /\ \A event \in InvalidFrames : handleMessage(c, event).branch = "dropped"
        /\ \E m \in MuteStateMsgs :
              /\ handleMessage(c, Frame(m)).branch = "broadcast"
              /\ handleMessage(c, Frame(m)).out # <<>>

(***************************************************************************)
(* The room once its last session is gone.                                 *)
(***************************************************************************)
\* C20: when a close or error event tears down the last registered session,
\* the registry, the mute cache and the rate-limit table hold no entry.
C20_RoomEvaporates ==
    [][(/\ \E c \in Chans : OnClose(c) \/ OnError(c)
        /\ sessions # {}
        /\ sessions' = {})
       => /\ muteStates' = {}
          /\ DOMAIN rateLimits' = {}]_vars

(***************************************************************************)
(* The admission of an upgrade.                                            *)
(***************************************************************************)
\* an upgrade request for a host that is not local
RemoteUpgrade(request) ==
    /\ request.upgrade = "websocket"
    /\ request.hostname \notin {"localhost", "127.0.0.1"}

\* the request names an Origin, and it cannot be parsed or its host is not
\* the request's
CrossOrigin(request) ==
    \/ request.origin.kind = "unparsable"
    \/ request.origin.kind = "url" /\ Host(request.origin) # Host(request)

SwitchStep ==
    \/ \E d \in Devices : switchDevice(d)
    \/ GotUserMedia
    \/ UserMediaFailed

Rank(call) ==
    CASE call = "pc.close" -> 1
      [] call = "track.stop" -> 2
      [] call = "socket.close" -> 3

Calls(log) == {log[i].call : i \in 1..Len(log)}

\* C18: called with the socket open or still connecting, leave() closes
\* every held connection, then stops the local tracks, then closes the
\* socket, in that order, and leaves no PeerLink, no local stream and an
\* empty visible peer set.
C18_LeaveClosesInOrder ==
    readyState \in {"open", "connecting"} =>
        LET r == Left(Session)
        IN /\ \A i, j \in 1..Len(r.log) : i < j => Rank(r.log[i].call) < Rank(r.log[j].call)
           /\ \A e \in peerConnections : r.rtc[e.val].state = "closed"
           /\ peerConnections # {} => "pc.close" \in Calls(r.log)
           /\ localStreamRef # <<>> => "track.stop" \in Calls(r.log)
           /\ "socket.close" \in Calls(r.log)
           /\ r.readyState = "closed"
           /\ r.peerConnections = {}
           /\ r.localStreamRef = <<>>
           /\ r.localStream = <<>>
           /\ r.peersMap = {}

\* the part of C18 both hooks keep: everything but the close of a socket
\* that is still connecting
C18_LeaveClosesOpenSocket ==
    readyState \in {"open", "connecting"} =>
        LET r == Left(Session)
        IN /\ \A i, j \in 1..Len(r.log) : i < j => Rank(r.log[i].call) < Rank(r.log[j].call)
           /\ \A e \in peerConnections : r.rtc[e.val].state = "closed"
           /\ readyState = "open" \/ build = "hook" =>
                 /\ "socket.close" \in Calls(r.log)
                 /\ r.readyState = "closed"
           /\ r.peerConnections = {}
           /\ r.localStreamRef = <<>>
           /\ r.localStream = <<>>
           /\ r.peersMap = {}

\* C19: leave() called right after leave() makes no call on a connection,
\* a track or the socket and ends in the state the first call ended in.
C19_LeaveIdempotent ==
    LET once == [Left(Session) EXCEPT !.log = <<>>]
        twice == Left(once)
    IN /\ twice.log = <<>>
       /\ twice = once

\* the orchestrator has left a call in which it held a PeerLink and a
\* stream, and leave() is called on it again
C19_Witness ==
    /\ readyState = "closed"
    /\ ~joinedRef
    /\ peerConnections = {}
    /\ localStreamRef = <<>>
    /\ \E p \in 1..MaxPc : rtc[p].state = "closed"
    /\ selectedDeviceId # ""
    /\ Left(Session).log = <<>>
    /\ Left(Session) = Session

(***************************************************************************)
(* The mute cache against the registry; sends that throw.                  *)
(***************************************************************************)
\* every identity of the mute cache is registered
CachedAreRegistered(cache, registry) == \A e \in cache : MapHas(registry, e.key)

\* C21: every identity with an entry in the mute cache has a registered
\* session: no step of the relay takes a state in which that holds to one
\* in which it does not.
C21_CachedAreRegistered ==
    [][CachedAreRegistered(muteStates, sessions)
         => CachedAreRegistered(muteStates', sessions')]_vars

\* the sends of out that threw and were made for a registry entry
Thrown(out) == {i \in 1..Len(out) : ~out[i].ok /\ out[i].sid # Null}

\* every send of r that threw for an entry has that entry out of the registry
ThrownAreEvicted(r) == \A i \in Thrown(r.out) : ~MapHas(r.sessions, r.out[i].sid)

\* the replay of the mute cache on socket c, whatever the state of c
Replay(c) == sendExistingMuteStates(Start(c), muteStates, c)

\* sends that throw in the broadcasts and in the targeted relay
BroadcastsEvict ==
    /\ \A c \in Chans :
           CanReceive(c) =>
               /\ \A m \in JoinMsgs : ThrownAreEvicted(handleJoin(c, m))
               /\ \A m \in SignalMsgs :
                      m.type = "offer" => ThrownAreEvicted(handleSignal(c, m))
               /\ \A m \in MuteStateMsgs : ThrownAreEvicted(handleMuteState(c, m))
    /\ \A c \in Chans : CanClose(c) => ThrownAreEvicted(handleClose(c))

C23_AnswerElsewhereIgnored ==
    \A p \in 1..MaxPc :
        /\ pcState[p].answer # 0 => p \in Offered(rtc[p].target)
        /\ "answer" \notin pcState[p].rejected

\* C24: a candidate that arrives for a remote id once its connection exists
\* is applied, or kept until the remote description is set; no call made for
\* a candidate rejects for want of a remote description.
C24_CandidateNeverRejected ==
    \A p \in 1..MaxPc :
        /\ pcState[p].candidates # {} => rtc[p].remote
        /\ "ice-candidate" \notin pcState[p].rejected

\* C25: an answer or a candidate made for a connection that has since been
\* replaced is never applied to the connection that replaced it: what a
\* connection applies was made for that connection.
C25_SupersededIgnored ==
    \A p \in 1..MaxPc :
        /\ pcState[p].answer \in {0, p}
        /\ pcState[p].candidates \cup pcState[p].queued \subseteq {p}

\* C26: for every remote participant in the peer set the mute flag shown is
\* the value of the last mute-state message received for it, also when that
\* message came before the participant's connection or track existed, and
\* is false when none was received.
C26_ShownMuteIsLastHeard ==
    \A e \in peersMap : e.val.muted = (heard[e.key] = <<TRUE>>)

\* C27: a toggle of the local mute on a live capture flips the enabled flag
\* of the capture's track, leaves the capture running on its device, sends
\* one mute-state message with the new flag and keeps that flag as the last
\* one broadcast; a second toggle brings the first flag back.
C27_ToggleFlipsAndBroadcasts ==
    localStreamRef # <<>> =>
        LET m == toggled(Media)
            isMuted == localStreamRef[1].enabled
        IN /\ m.localStreamRef = <<[localStreamRef[1] EXCEPT !.enabled = ~isMuted]>>
           /\ Len(m.sent) = 1
           /\ m.sent[1].msg = MuteStateMsg(isMuted)
           /\ m.lastBroadcastMuteState = <<isMuted>>
           /\ toggled(m).localStreamRef = localStreamRef

\* C28: when a device switch completes, the new capture is muted exactly if
\* the capture it replaces was muted at that moment, also after a toggle
\* made while getUserMedia was pending, and the last mute flag broadcast is
\* that flag.
C28_SwitchPreservesMute ==
    [][(/\ refresh.pos = "getUserMedia"
        /\ refresh'.pos = "idle"
        /\ localStreamRef # <<>>
        /\ localStreamRef' # <<>>)
         => /\ localStreamRef'[1].enabled = localStreamRef[1].enabled
            /\ lastBroadcastMuteState' = <<~localStreamRef[1].enabled>>]_vars

\* C29: when a device switch has succeeded, every connection that is held
\* and not closed sends the audio track of the new capture, also a
\* connection that was made while there was no local capture.
C29_SwitchReachesEveryLink ==
    [][(/\ refresh.pos = "getUserMedia"
        /\ refresh.deviceId # ""
        /\ refresh'.pos = "idle"
        /\ localStreamRef' # <<>>
        /\ localStreamRef'[1].deviceId = refresh.deviceId)
         => \A e \in peerConnections' :
                rtc'[e.val].state = "open"
                  => pcState'[e.val].track = localStreamRef'[1].deviceId]_vars

\* C30: when getUserMedia fails in the route's hook, the local stream is
\* absent (not a stream whose track is disabled) and the permission state is
\* not 'granted'; no connection is closed or removed and each keeps the track
\* it was sending; a new capture can be started, and when one succeeds after
\* a failure the stream is back and the permission state is 'granted'.
C30_FailedCaptureKeepsLinks ==
    [][/\ (build = "route" /\ UserMediaFailed)
            => /\ localStreamRef' = <<>>
               /\ localStream' = <<>>
               /\ permissionState' \in {"initial", "denied"}
               /\ peerConnections' = peerConnections
               /\ rtc' = rtc
               /\ pcState' = pcState
               /\ refresh'.pos = "idle"
       /\ (build = "route" /\ localStreamRef = <<>> /\ GotUserMedia)
            => /\ localStreamRef' # <<>>
               /\ localStreamRef'[1].enabled
               /\ permissionState' = "granted"
               /\ peerConnections' = peerConnections
               /\ rtc' = rtc]_vars

\* a capture has failed in a call: no local stream, the permission state
\* not 'granted', and a connection still open with the track it had
C30_Witness ==
    /\ build = "route"
    /\ localStreamRef = <<>>
    /\ permissionState \in {"initial", "denied"}
    /\ refresh.pos = "idle"
    /\ \E e \in peerConnections :
          rtc[e.val].state = "open" /\ pcState[e.val].track # ""

\* C31: on user-left{X} the connection held for X is closed and dropped
\* from the map, the level monitor and the stats monitor of X are stopped
\* (no timer started for a connection to X keeps running), and X is gone
\* from the peer set and from the health map; when nothing is held for X
\* the event changes nothing.
C31_UserLeftDiscards ==
    [][\A x \in Remotes :
         OnUserLeft(x) =>
           /\ \A e \in peerConnections : e.key = x => rtc'[e.val].state = "closed"
           /\ ~MapHas(peerConnections', x)
           /\ x \notin audioMonitors'
           /\ ~MapHas(statsMonitors', x)
           /\ \A i \in intervals' : rtc[i].target # x
           /\ ~MapHas(peersMap', x)
           /\ ~MapHas(peerHealth', x)
           /\ (/\ ~MapHas(peerConnections, x)
               /\ ~MapHas(peersMap, x)
               /\ ~MapHas(statsMonitors, x)
               /\ ~MapHas(peerHealth, x)
               /\ x \notin audioMonitors)
                => UNCHANGED <<peerConnections, rtc, peersMap, pcState, tasks, statVars>>]_vars

\* C32 (helper): the tier the claim gives for a round-trip time and a loss
\* fraction, <<>> standing for a missing signal
C32_Tier(rttMs, lossPercent) ==
    LET loss(n) == lossPercent # <<>> /\ lossPercent[1].num > n * lossPercent[1].den
        rtt(n) == rttMs # <<>> /\ rttMs[1] > n
    IN CASE loss(8) \/ rtt(400) -> "bad"
         [] ~(loss(8) \/ rtt(400)) /\ (loss(4) \/ rtt(250)) -> "degraded"
         [] OTHER -> "good"

\* C32 (helper): the loss between the totals kept by the previous sample
\* and the totals of this report
C32_IntervalLoss(peerId, report) ==
    LET before == IF MapHas(statsMonitors, peerId)
                  THEN MapGet(statsMonitors, peerId)
                  ELSE [prevReceived |-> 0, prevLost |-> 0]
        received == report[1].packetsReceived - before.prevReceived
        lost == report[1].packetsLost - before.prevLost
    IN IF report = <<>> \/ received + lost <= 0 THEN <<>>
       ELSE <<[num |-> 100 * lost, den |-> received + lost]>>

\* C32: every sample stores for its peer the round-trip time it measured,
\* the loss between the previous sample's totals and its own, and the tier
\* bad / degraded / good these two give by the thresholds 8 and 4 percent,
\* 400 and 250 ms; it keeps its totals for the next sample; and it leaves
\* every connection and the connection map as they were.
C32_QualityFromIntervalLoss ==
    [][\A c \in sampling, rttMs \in RttSamples : \A report \in Reports(c) :
         Sampled(c, rttMs, report) =>
           /\ MapHas(peerHealth', c.peerId)
           /\ MapGet(peerHealth', c.peerId) =
                 [rttMs |-> rttMs,
                  lossPercent |-> C32_IntervalLoss(c.peerId, report),
                  quality |-> C32_Tier(rttMs, C32_IntervalLoss(c.peerId, report))]
           /\ report # <<>> =>
                 /\ MapGet(statsMonitors', c.peerId).prevReceived = report[1].packetsReceived
                 /\ MapGet(statsMonitors', c.peerId).prevLost = report[1].packetsLost
           /\ UNCHANGED <<peerConnections, rtc, peersMap, pcState>>]_vars

\* C32 (witness): a second sample was taken whose interval had no loss
\* although the stream has lost packets in total: the tier is good where
\* the cumulative ratio 2 / 26 would give degraded
C32_Witness ==
    /\ MapHas(statsMonitors, Monitored)
    /\ MapGet(statsMonitors, Monitored).prevReceived = 24
    /\ MapGet(statsMonitors, Monitored).prevLost = 2
    /\ MapHas(peerHealth, Monitored)
    /\ MapGet(peerHealth, Monitored).lossPercent = <<[num |-> 0, den |-> 24]>>
    /\ MapGet(peerHealth, Monitored).quality = "good"
    /\ MapHas(peerConnections, Monitored)

\* C33: no session that is registered keeps a participant the registry no
\* longer holds: every identity a registered session was told joined, and
\* has not been told left, is still registered.
C33_NoStaleParticipant ==
    \A e \in sessions : \A x \in roster[e.val.ws] : MapHas(sessions, x)

\* C34: no two registry entries hold the same control channel, and no
\* registry entry holds a channel whose close event has been handled.
C34_OneIdentityPerChannel ==
    /\ \A e1, e2 \in sessions : e1.val.ws = e2.val.ws => e1.key = e2.key
    /\ \A e \in sessions : chan[e.val.ws].state # "closed"

\* C35 (helper): the channel c is registered under id
C35_RegisteredAs(c, id) ==
    MapHas(sessions, id) /\ MapGet(sessions, id).ws = c

\* C35 (helper): every message of out that was delivered names as sender an
\* identity the channel c is registered under
C35_SendsOwn(c, out) ==
    \A i \in 1..Len(out) : out[i].ok => C35_RegisteredAs(c, out[i].msg.senderClientId)

\* C35: every offer, answer, ice-candidate or mute-state the relay delivers
\* for a channel carries the identity that channel is registered under as
\* senderClientId, and a mute-state changes the mute cache only at the key
\* of the identity its channel is registered under.
C35_NoSenderSpoofing ==
    [][\A c \in Chans :
         /\ \A m \in SignalMsgs :
              Signal(c, m) => C35_SendsOwn(c, handleSignal(c, m).out)
         /\ \A m \in MuteStateMsgs :
              MuteState(c, m) =>
                /\ C35_SendsOwn(c, handleMuteState(c, m).out)
                /\ \A e \in (muteStates' \ muteStates) : C35_RegisteredAs(c, e.key)]_vars

\* C36 (helper): the listener's result r counted one message of channel c
\* against the identity in its closure: a first message, or one after the
\* window has passed, opens a window with count 1; one within the window
\* adds 1 below the ceiling and is refused at the ceiling; no other entry
\* changes; a channel that has not joined is not counted
C36_Counted(c, r) ==
    LET id == chan[c].clientId
    IN IF id = Null THEN r.rateLimits = rateLimits
       ELSE /\ DOMAIN r.rateLimits = DOMAIN rateLimits \cup {id}
            /\ \A k \in DOMAIN rateLimits \ {id} : r.rateLimits[k] = rateLimits[k]
            /\ IF /\ id \in DOMAIN rateLimits
                  /\ now - rateLimits[id].windowStart <= RATE_LIMIT_WINDOW_MS
               THEN IF rateLimits[id].count < RATE_LIMIT_MAX
                    THEN r.rateLimits[id] = [count |-> rateLimits[id].count + 1,
                                             windowStart |-> rateLimits[id].windowStart]
                    ELSE /\ r.rateLimits[id] = rateLimits[id]
                         /\ r.closeCode = CLOSE_RATE_LIMIT
               ELSE r.rateLimits[id] = [count |-> 1, windowStart |-> now]

C37_OneOfferer ==
    \A e1, e2 \in sessions :
       (e1.key # e2.key /\ joins[e1.val.ws] = 1 /\ joins[e2.val.ws] = 1)
          => ~(e2.key \in roster[e1.val.ws] /\ e1.key \in roster[e2.val.ws])

\* C37 (witness): two sessions that joined once each; the first was told of
\* the second and the second was not told of the first
C37_Witness ==
    \E e1, e2 \in sessions :
       /\ e1.key # e2.key
       /\ joins[e1.val.ws] = 1 /\ joins[e2.val.ws] = 1
       /\ e2.key \in roster[e1.val.ws]
       /\ e1.key \notin roster[e2.val.ws]

\* C40: a join for an identity that is registered sends nothing but the
\* error to the channel it came from (no user-joined to anyone, no replay
\* of the mute cache), and leaves the registry, the mute cache, the rate
\* limits, what every client has been told, and every other channel as
\* they were.
C40_RejectedJoinFrame ==
    [][\A c \in Chans, m \in JoinMsgs :
         (Join(c, m) /\ MapHas(sessions, m.clientId)) =>
           /\ \A i \in 1..Len(handleJoin(c, m).out) :
                /\ handleJoin(c, m).out[i].to = c
                /\ handleJoin(c, m).out[i].msg.type = "error"
           /\ UNCHANGED <<sessions, muteStates, rateLimits, roster, joins>>
           /\ \A d \in Chans \ {c} : chan'[d] = chan[d]]_vars

\* C40 (witness): a channel was turned away while the mute cache held an
\* entry and another session was registered on an open channel
C40_Witness ==
    \E c \in Chans :
       /\ chan[c].closeCode = CLOSE_CLIENT_ID_IN_USE
       /\ muteStates # {}
       /\ \E e \in sessions : e.val.ws # c /\ chan[e.val.ws].state = "open"

\* C38: the orchestrator sends a join only as the first join on its
\* socket, and only while the socket is open and a local capture is held;
\* no other step, a capture that resolves or replaces the stream included,
\* sends one.
C38_JoinOnceWhenReady ==
    [][life'.joins # life.joins =>
         /\ life.joins = 0
         /\ life'.joins = 1
         /\ readyState = "open"
         /\ localStreamRef # <<>>]_vars

\* C38 (witness): after the join a switch of device replaced the capture
\* on a connection, and one join has been sent
C38_Witness ==
    /\ life.joins = 1
    /\ joinedRef
    /\ refresh.pos = "idle"
    /\ refresh.replaced # {}
    /\ nSwitch = 1

\* C39: once leave() has returned, and until the user asks for a capture
\* again, the orchestrator holds no local capture: a getUserMedia that was
\* pending when leave() ran installs nothing.
C39_NoCaptureAfterLeave ==
    life.left => (localStreamRef = <<>> /\ localStream = <<>>)

====
